---- MODULE Spec2Model ----
(***************************************************************************)
(* QuantumShield: the self-healing state machine of app.py (one Streamlit  *)
(* script run per user event, per browser session), the system-state REST  *)
(* endpoint of flask_app.py, and the database they share (database.py).    *)
(*                                                                         *)
(* A Streamlit session keeps st.session_state in the server process; the   *)
(* script of app.py is run top to bottom for every user event of that      *)
(* session and again after every st.rerun().  Sessions run in their own    *)
(* threads and meet only in the database.  One action of this module is    *)
(* one handler of the script (or one endpoint), database commit included;  *)
(* a commit can fail, and then the exception ends the script run.          *)
(*                                                                         *)
(* The file integrity monitor (file_monitor.py) and the two classifiers    *)
(* (detect_attack, check_file_integrity) have their own variables and      *)
(* their own specifications; the actions of the script leave them alone.   *)
(* So has the ransomware detector (ransomware_detector.py): its tracker of  *)
(* file modifications, its backups and the automated_responses table.      *)
(***************************************************************************)
EXTENDS Integers, Sequences, FiniteSets, TLC

\* ---------------------------------------------------------------- bounds
\* Rows the model lets security_events grow to before user events stop.
MaxEvents == 2
\* Rows the model lets quantum_measurements grow to before user events stop.
MaxMeasurements == 2
\* Largest counter value a PUT /api/system/state request carries.
MaxPut == 1
\* Disturbances from outside the script that a run of the model sees: commit
\* failures while storage is left, PUT requests and restarts.
MaxDisturbances == 2

\* Largest count per label in the mappings handed to the classifier alone.
MaxCount == 10

\* Scan requests stop once this many 'File Tampering Detected' events are
\* stored.
MaxTampering == 2

\* A file's modification time changes at most this often.
MaxMtime == 11

\* The largest modification count handed to the detector's loop body.
MaxMods == 11

\* Detector scans start while fewer 'Ransomware Detected' events are stored.
MaxRansom == 2

\* The number of save_idea calls that start.
MaxIdeas == 4

\* Browser sessions (each has its own st.session_state).
Sessions == {"s1", "s2"}

\* last_attack_results is None (the empty set) or holds one mapping.
None == {}

\* ------------------------------------------------- outcome-count mappings
\* The circuit simulator is an external collaborator that returns a dict
\* label -> count for 1000 shots.  Three returns are enumerated: a perfect
\* Bell pair, the 95% boundary and a decohered state.
BellCounts == ("00" :> 500) @@ ("11" :> 500)
BoundaryCounts == ("00" :> 500) @@ ("11" :> 450) @@ ("01" :> 30) @@ ("10" :> 20)
NoisyCounts == ("00" :> 300) @@ ("11" :> 300) @@ ("01" :> 200) @@ ("10" :> 200)

\* measure_quantum_state(qc): the counts of one run of the Bell circuit.
measure_quantum_state == {BellCounts, NoisyCounts}
\* simulate_attack(qc): the counts of one run of the attacked circuit.
simulate_attack == {BoundaryCounts, NoisyCounts}

\* dict.get(key, 0)
Get(d, k) == IF k \in DOMAIN d THEN d[k] ELSE 0

RECURSIVE SumOver(_, _)
SumOver(d, keys) ==
    IF keys = {} THEN 0
    ELSE LET k == CHOOSE x \in keys : TRUE
         IN d[k] + SumOver(d, keys \ {k})

\* sum(counts.values())
Total(counts) == SumOver(counts, DOMAIN counts)

\* correlation of store_quantum_data_with_entropy, in percent (exact for the
\* enumerated mappings, whose Bell share is a whole percentage).
Correlation(counts) == ((Get(counts, "00") + Get(counts, "11")) * 100) \div Total(counts)

\* detect_attack with the boundary on the wrong side (<= for <).
detect_attack_inclusive(counts) ==
    (Get(counts, "00") + Get(counts, "11")) * 100 <= 95 * Total(counts)

\* detect_attack(counts): correlation_ratio < 0.95
detect_attack(counts) == (Get(counts, "00") + Get(counts, "11")) * 100 < 95 * Total(counts)

\* for state, count in counts.items():
\*     measurements[state] = measurements.get(state, 0) + count
AddCounts(agg, counts) ==
    [k \in DOMAIN agg \cup DOMAIN counts |-> Get(agg, k) + Get(counts, k)]

\* One pass of the fold of the session initialisation over one stored row:
\* labels other than 00 and 11 are added to the key 'other'.
FoldOne(agg, counts) ==
    [k \in {"00", "11", "other"} |->
        IF k = "other"
        THEN agg[k] + SumOver(counts, DOMAIN counts \ {"00", "11"})
        ELSE agg[k] + Get(counts, k)]

RECURSIVE FoldMeasurements(_)
\* measurements_dict of the session initialisation: the fold over all rows.
FoldMeasurements(rows) ==
    IF rows = <<>> THEN ("00" :> 0) @@ ("11" :> 0) @@ ("other" :> 0)
    ELSE FoldOne(FoldMeasurements(SubSeq(rows, 1, Len(rows) - 1)),
                 rows[Len(rows)].measurements)

\* ------------------------------------------------------------------ rows
\* SystemState(): the column defaults.
DefaultSystemState == [system_version |-> 1, total_resets |-> 0, quantum_intact |-> TRUE]

\* QuantumMeasurement(...) as store_quantum_data_with_entropy builds it
\* (entropy_key and data_hash are functions of the counts and are left out).
QuantumMeasurementRow(counts, is_attack) ==
    [measurements |-> counts, correlation |-> Correlation(counts), is_attack |-> is_attack]

\* SecurityEvent(event_type=..., system_version=...)
SecurityEventRow(event_type, version) ==
    [event_type |-> event_type, system_version |-> version]

VARIABLES
    system_state,        \* table system_state: the rows, in id order
    security_events,     \* table security_events, in id order
    quantum_measurements,\* table quantum_measurements, in id order
    db_initialized,      \* per session: 'db_initialized' in st.session_state
    system_version,      \* per session: st.session_state.system_version
    system_resets,       \* per session: st.session_state.system_resets
    quantum_intact,      \* per session: st.session_state.quantum_intact
    last_attack_results, \* per session: st.session_state.last_attack_results
    attack_log,          \* per session: st.session_state.attack_log (event names)
    secure_data_store,   \* per session: st.session_state.secure_data_store
    measurements,        \* per session: st.session_state.measurements
    pc,                  \* per session: where its script run stands
    button,              \* per session: the button that is True in this run
    timer_preempted,     \* per session: the Reset click of this run stopped the 2 s delay
    error,               \* per session: the last run ended in an exception
    disturbances,        \* commit failures, PUT requests and restarts so far
    monitored_files,     \* table monitored_files, in id order
    fs,                  \* the file system: path -> content, or Absent
    scan_files,          \* per scan invocation: the rows its query returned
    scan_pc,             \* per scan invocation: where it stands
    scan_results,        \* per scan invocation: the results it returned last
    removed,             \* the last call of remove_monitored_file and its outcome
    added,               \* what the last add_monitored_file call returned
    counts_in,           \* the mapping handed to detect_attack
    verdict,             \* what detect_attack made of it
    probe,               \* the stored and current hash and entropy of one file
    integrity,           \* what check_file_integrity made of them
    clock,               \* time.time() and datetime.now(), in whole seconds
    mtime,               \* per path: os.path.getmtime(path)
    file_mtime_cache,    \* RansomwareDetector.file_mtime_cache
    file_modification_tracker, \* RansomwareDetector.file_modification_tracker
    num_mods,            \* per path: what track_file_modification returned now
    rapid,               \* per directory: what detect_rapid_encryption returned now
    backups,             \* the files of the backup directory, with their content
    automated_responses, \* table automated_responses, in id order
    ransom_pc,           \* where the detector's scan in progress stands
    ransom_todo,         \* the files its loop has still to look at
    threats,             \* its list of threats
    attempted,           \* the calls of create_backup it has made
    pending,             \* rows added to its own session, not yet committed
    responses_before,    \* the number of automated_responses when it started
    ext_in,              \* the extension of one file handed to the detector
    mods_in,             \* the modification count of that file's directory
    flags                \* the threats the detector's scan found for that file

\* quantum_recovery.py, one run of simulate_recovery.
VARIABLES
    recovery_pc,         \* the step simulate_recovery has reached
    psi,                 \* the state vector it prepares, before .unit()
    rho,                 \* the density matrices, in units of 1/Scale
    rho_attacked,
    rho_recovered,
    attacked_val,        \* the two correlations it returns, in percent
    recovered_val

recoveryVars == <<recovery_pc, psi, rho, rho_attacked, rho_recovered,
                  attacked_val, recovered_val>>
\* quantum_voter.py, the idea file and the calls of save_idea.
VARIABLES
    idea_file,           \* the list stored in DB_FILE
    voter_pc,            \* per request thread: where its save_idea is
    voter_data,          \* per request thread: its local list data
    voter_temp,          \* per request thread: the content of its temporary file
    calls,               \* the number of save_idea calls started so far
    saved                \* the ideas whose save_idea has returned

voterVars == <<idea_file, voter_pc, voter_data, voter_temp, calls, saved>>
\* The parts of the repository that run outside the application.
scriptVars == <<recoveryVars, voterVars>>

vars == <<system_state, security_events, quantum_measurements, db_initialized,
          system_version, system_resets, quantum_intact, last_attack_results,
          attack_log, secure_data_store, measurements, pc, button,
          timer_preempted, error, disturbances, monitored_files, fs,
          scan_files, scan_pc, scan_results, removed, added, counts_in, verdict,
          probe, integrity, clock, mtime, file_mtime_cache,
          file_modification_tracker, num_mods, rapid, backups,
          automated_responses, ransom_pc, ransom_todo, threats, attempted,
          pending, responses_before, ext_in, mods_in, flags, scriptVars>>

dbVars == <<system_state, security_events, quantum_measurements>>
memVars == <<db_initialized, system_version, system_resets, quantum_intact,
             last_attack_results, attack_log, secure_data_store, measurements>>
runVars == <<pc, button, timer_preempted, error>>
fileVars == <<monitored_files, fs, scan_files, scan_pc, scan_results, removed,
              added>>
classifierVars == <<counts_in, verdict, probe, integrity>>
trackVars == <<mtime, file_mtime_cache, file_modification_tracker, num_mods, rapid>>
backupVars == <<backups, automated_responses>>
callVars == <<ransom_pc, ransom_todo, threats, attempted, pending, responses_before>>
extVars == <<ext_in, mods_in, flags>>
ransomVars == <<clock, trackVars, backupVars, callVars, extVars>>
\* What the script of app.py and the system-state endpoint never touch.
sensorVars == <<fileVars, added, classifierVars, ransomVars, scriptVars>>

EmptyTotals == ("00" :> 0) @@ ("11" :> 0) @@ ("other" :> 0)

\* ------------------------------------------------------ the file monitor
\* The paths the monitor is asked about, and what a file can hold: Absent
\* (no such file), two readable contents, or a file that cannot be read.
Paths == {"p1", "p2"}

\* The files of the file system: the candidate paths and a file next to p1
\* in its directory that is never registered.
Files == Paths \cup {"p3"}
Absent == "absent"
Contents == {"A", "B", "unreadable"}

\* calculate_file_hash(file_path): the SHA-256 of the content, "" when the
\* file cannot be opened.
calculate_file_hash(content) ==
    IF content \in {Absent, "unreadable"} THEN ""
    ELSE IF content = "A" THEN "hA" ELSE "hB"

\* calculate_file_entropy(file_path), in tenths of a bit: 0.0 when the file
\* cannot be opened.
calculate_file_entropy(content) ==
    IF content \in {Absent, "unreadable"} THEN 0
    ELSE IF content = "A" THEN 40 ELSE 47

\* The scan invocations that can be in flight at once (request threads of
\* flask_app.py, script runs of app.py).
Scanners == {"t1", "t2"}

\* No results returned (yet).
NoResults == <<>>

\* remove_monitored_file has not been called.
NoCall == [file_id |-> 0, returned |-> "none"]

\* No call of add_monitored_file has returned yet.
NoAdd == [file_path |-> "", file_id |-> 0, is_new |-> FALSE, returned |-> "none"]

\* The file monitor before anything is registered: no rows, no files.
FileInit ==
    /\ monitored_files = <<>>
    /\ fs = [p \in Files |-> Absent]
    /\ scan_files = [t \in Scanners |-> <<>>]
    /\ scan_pc = [t \in Scanners |-> "idle"]
    /\ scan_results = [t \in Scanners |-> NoResults]
    /\ removed = NoCall
    /\ added = NoAdd

\* The classifiers with nothing handed to them.
ClassifierInit ==
    /\ counts_in = <<>>
    /\ verdict = "none"
    /\ probe = <<>>
    /\ integrity = <<>>

\* The directories of the paths: p1 is /d1/f.locked, p2 is /d2/f.txt.
Dirs == {"d1", "d2"}

\* os.path.dirname(filepath)
dirname(filepath) == IF filepath \in {"p1", "p3"} THEN "d1" ELSE "d2"

\* os.path.basename(filepath)
basename(filepath) ==
    IF filepath = "p1" THEN "f.locked" ELSE IF filepath = "p3" THEN "g.txt" ELSE "f.txt"

\* os.path.splitext(filepath)[1]
splitext(filepath) == IF filepath = "p1" THEN ".locked" ELSE ".txt"

\* The readings of the clock: a start, the moment one window later, and the
\* second after it.
Times == {0, 60, 61}

\* filepath not in self.file_mtime_cache
NotCached == -1

\* track_file_modification has not been called since the clock moved.
NoCount == -1

\* No file has been handed to the detector's scan.
NotScanned == [scanned |-> FALSE, threats |-> <<>>]

\* RansomwareDetector() just constructed, an empty backup directory and an
\* empty automated_responses table.
DetectorInit ==
    /\ clock = 0
    /\ mtime = [p \in Files |-> 0]
    /\ file_mtime_cache = [p \in Files |-> NotCached]
    /\ file_modification_tracker = [d \in Dirs |-> <<>>]
    /\ num_mods = [p \in Files |-> NoCount]
    /\ rapid = [d \in Dirs |-> "none"]
    /\ backups = {}
    /\ automated_responses = <<>>
    /\ ransom_pc = "idle"
    /\ ransom_todo = <<>>
    /\ threats = <<>>
    /\ attempted = <<>>
    /\ pending = <<>>
    /\ responses_before = 0
    /\ ext_in = ""
    /\ mods_in = 0
    /\ flags = NotScanned

\* The session and the database of a process in which nothing has run.
AppInit ==
    /\ system_state = <<>>
    /\ security_events = <<>>
    /\ quantum_measurements = <<>>
    /\ db_initialized = [s \in Sessions |-> FALSE]
    /\ system_version = [s \in Sessions |-> 0]
    /\ system_resets = [s \in Sessions |-> 0]
    /\ quantum_intact = [s \in Sessions |-> TRUE]
    /\ last_attack_results = [s \in Sessions |-> None]
    /\ attack_log = [s \in Sessions |-> <<>>]
    /\ secure_data_store = [s \in Sessions |-> <<>>]
    /\ measurements = [s \in Sessions |-> EmptyTotals]
    /\ pc = [s \in Sessions |-> "idle"]
    /\ button = [s \in Sessions |-> "none"]
    /\ timer_preempted = [s \in Sessions |-> FALSE]
    /\ error = [s \in Sessions |-> FALSE]

\* ------------------------------------------------- the recovery simulation
\* quantum_recovery.py.  Operators on two qubits are 4 x 4 matrices over the
\* basis |00>, |01>, |10>, |11>, rows and columns numbered from 1.
Dim == 1..4

\* The manual gates X, Z and I of the script.
X == <<<<0, 1>>, <<1, 0>>>>
Z == <<<<1, 0>>, <<0, -1>>>>
I == <<<<1, 0>>, <<0, 1>>>>

\* qt.tensor(A, B) of two one-qubit operators.
tensor(A, B) ==
    [i \in Dim |-> [j \in Dim |->
        A[((i - 1) \div 2) + 1][((j - 1) \div 2) + 1]
            * B[((i - 1) % 2) + 1][((j - 1) % 2) + 1]]]

\* A * B, A.dag() (the entries are real) and A.tr().
MatMul(A, B) ==
    [i \in Dim |-> [j \in Dim |->
        A[i][1] * B[1][j] + A[i][2] * B[2][j] + A[i][3] * B[3][j] + A[i][4] * B[4][j]]]
dag(A) == [i \in Dim |-> [j \in Dim |-> A[j][i]]]
tr(A) == A[1][1] + A[2][2] + A[3][3] + A[4][4]

\* tensor(basis(2,0), basis(2,0)) + tensor(basis(2,1), basis(2,1)), before
\* .unit().
bell == <<1, 0, 0, 1>>

\* Density matrices are held in units of 1/Scale, so that the entries of a
\* normalised state stay integers.
Scale == 4
Norm2(v) == v[1] * v[1] + v[2] * v[2] + v[3] * v[3] + v[4] * v[4]

\* The state vectors the operators are applied to: amplitudes -1, 0 and 1
\* with a norm whose square divides Scale; bell is one of them.
Kets == {v \in [Dim -> {-1, 0, 1}] : Norm2(v) \in {1, 2, 4}}

\* v.unit() * v.unit().dag()
Density(v) == [i \in Dim |-> [j \in Dim |-> (Scale \div Norm2(v)) * v[i] * v[j]]]

\* The phase flip and bit flip of the attack.
noise == tensor(Z, X)

\* A correction that leaves out the bit flip.
correction_phase_only == tensor(Z, I)

\* The inverse operators of the reversal.
correction == tensor(Z, X)

\* |00><00| + |11><11| and the correlation, in percent.
P_sync == [i \in Dim |-> [j \in Dim |-> IF i = j /\ i \in {1, 4} THEN 1 ELSE 0]]
get_corr(state) == (tr(MatMul(P_sync, state)) * 100) \div Scale

ZeroMatrix == [i \in Dim |-> [j \in Dim |-> 0]]
NoCorr == -1

\* simulate_recovery not yet called, on the state v.
RecoveryStart(v) ==
    /\ recovery_pc = "setup"
    /\ psi = v
    /\ rho = ZeroMatrix
    /\ rho_attacked = ZeroMatrix
    /\ rho_recovered = ZeroMatrix
    /\ attacked_val = NoCorr
    /\ recovered_val = NoCorr

\* ------------------------------------------------------ the idea network
\* quantum_voter.py.  The request threads of the Flask server.
Workers == {"w1", "w2"}

\* init_voter_db: the file holds the empty list; no request is being served.
VoterInit ==
    /\ idea_file = <<>>
    /\ voter_pc = [w \in Workers |-> "idle"]
    /\ voter_data = [w \in Workers |-> <<>>]
    /\ voter_temp = [w \in Workers |-> <<>>]
    /\ calls = 0
    /\ saved = {}

\* The scripts not yet run, the idea file empty.
ScriptInit == RecoveryStart(bell) /\ VoterInit

\* The process starts with an empty database and no session state.
Init ==
    /\ AppInit
    /\ FileInit
    /\ ScriptInit
    /\ ClassifierInit
    /\ DetectorInit
    /\ disturbances = 0


\* --------------------------------------------------------------- helpers
\* The model's storage is finite: a commit that would take a table past its
\* bound fails, as any commit may.
CanStoreEvent == Len(security_events) < MaxEvents
CanStoreMeasurement == Len(quantum_measurements) < MaxMeasurements

\* One more disturbance is within the model's budget.
Disturb ==
    /\ disturbances < MaxDisturbances
    /\ disturbances' = disturbances + 1

\* A commit fails: the table it writes is full (full), or the storage is
\* disturbed.
CommitFails(full) ==
    IF full THEN UNCHANGED disturbances ELSE Disturb

\* User events of a session stop once its in-memory lists have reached the
\* bounds.
Room(s) ==
    /\ Len(attack_log[s]) < MaxEvents
    /\ Len(secure_data_store[s]) < MaxMeasurements

\* if not st.session_state.quantum_intact: time.sleep(2); auto_reset_system()
\* (the end of the script run: the reset delay starts, or the run is over).
AfterMain(intact) == IF intact THEN "idle" ELSE "sleeping"

\* A session initialisation that keeps the defaults of a new session
\* instead of the stored row.
LoadSession_defaults(s, row) ==
    /\ system_version' = [system_version EXCEPT ![s] = DefaultSystemState.system_version]
    /\ system_resets' = [system_resets EXCEPT ![s] = DefaultSystemState.total_resets]
    /\ quantum_intact' = [quantum_intact EXCEPT ![s] = DefaultSystemState.quantum_intact]
    /\ attack_log' = [attack_log EXCEPT ![s] =
            [i \in 1..Len(security_events) |-> security_events[i].event_type]]
    /\ secure_data_store' = [secure_data_store EXCEPT ![s] =
            [i \in 1..Len(quantum_measurements) |-> quantum_measurements[i].measurements]]
    /\ measurements' = [measurements EXCEPT ![s] = FoldMeasurements(quantum_measurements)]
    /\ db_initialized' = [db_initialized EXCEPT ![s] = TRUE]
    /\ UNCHANGED last_attack_results

\* The session initialisation once sys_state is known: version, reset
\* counter and flag from the row, the log from the stored events, the data
\* store from the stored measurements, the totals from the fold.  (The
\* limits of 50 events and 100 measurements are above the model's bounds.)
LoadSession(s, row) ==
    /\ system_version' = [system_version EXCEPT ![s] = row.system_version]
    /\ system_resets' = [system_resets EXCEPT ![s] = row.total_resets]
    /\ quantum_intact' = [quantum_intact EXCEPT ![s] = row.quantum_intact]
    /\ attack_log' = [attack_log EXCEPT ![s] =
            [i \in 1..Len(security_events) |-> security_events[i].event_type]]
    /\ secure_data_store' = [secure_data_store EXCEPT ![s] =
            [i \in 1..Len(quantum_measurements) |-> quantum_measurements[i].measurements]]
    /\ measurements' = [measurements EXCEPT ![s] = FoldMeasurements(quantum_measurements)]
    /\ db_initialized' = [db_initialized EXCEPT ![s] = TRUE]
    /\ UNCHANGED last_attack_results

\* get_or_create_system_state(db) inside a handler: the first row, or the
\* row it inserts when the table is empty.
SystemStateRow == IF system_state = <<>> THEN DefaultSystemState ELSE system_state[1]

\* The table once the row of get_or_create_system_state has been written
\* back as row.
PutRow(row) ==
    IF system_state = <<>> THEN <<row>> ELSE [system_state EXCEPT ![1] = row]

\* The table after a handler whose commit raised: as it was, or with the
\* row get_or_create_system_state had inserted and committed before.
AfterFailedCommit == {system_state, PutRow(SystemStateRow)}

\* An exception leaves the script run: Streamlit shows it and the run ends.
Raise(s) ==
    /\ pc' = [pc EXCEPT ![s] = "idle"]
    /\ button' = [button EXCEPT ![s] = "none"]
    /\ timer_preempted' = [timer_preempted EXCEPT ![s] = FALSE]
    /\ error' = [error EXCEPT ![s] = TRUE]

\* st.rerun(): the script starts again from the top with no button pressed;
\* the session is initialised, so the run goes on to the measurement.
Rerun(s) ==
    /\ pc' = [pc EXCEPT ![s] = "main"]
    /\ button' = [button EXCEPT ![s] = "none"]
    /\ timer_preempted' = [timer_preempted EXCEPT ![s] = FALSE]
    /\ UNCHANGED error

\* ---------------------------------------------------------------- actions
\* A user event of session s starts a script run: a page load or another
\* widget (b = "none") or one of the three buttons.  A run that is waiting
\* in time.sleep(2) is stopped by the event and the script runs again.
UserEvent(s, b) ==
    /\ pc[s] \in {"idle", "sleeping"}
    /\ db_initialized[s] => Room(s)
    /\ b # "none" => db_initialized[s]
    /\ pc' = [pc EXCEPT ![s] =
            IF ~db_initialized[s] THEN "init"
            ELSE IF b = "none" THEN "main" ELSE "button"]
    /\ button' = [button EXCEPT ![s] = b]
    /\ timer_preempted' = [timer_preempted EXCEPT ![s] = (pc[s] = "sleeping" /\ b = "reset")]
    /\ error' = [error EXCEPT ![s] = FALSE]
    /\ UNCHANGED <<dbVars, memVars, disturbances, sensorVars>>

\* get_or_create_system_state, the query: with a row the session is loaded
\* from the first row; without one the insert is still to come.
InitQuery(s) ==
    /\ pc[s] = "init"
    /\ IF system_state # <<>>
       THEN /\ LoadSession(s, system_state[1])
            /\ pc' = [pc EXCEPT ![s] = "main"]
       ELSE /\ pc' = [pc EXCEPT ![s] = "init_insert"]
            /\ UNCHANGED memVars
    /\ UNCHANGED <<dbVars, button, timer_preempted, error, disturbances, sensorVars>>

\* get_or_create_system_state, the insert: db.add(SystemState()); commit;
\* refresh.  The session is then loaded from the row it inserted.
InitInsert(s) ==
    /\ pc[s] = "init_insert"
    /\ \/ /\ system_state' = Append(system_state, DefaultSystemState)
          /\ LoadSession(s, DefaultSystemState)
          /\ pc' = [pc EXCEPT ![s] = "main"]
          /\ UNCHANGED <<security_events, quantum_measurements, button,
                         timer_preempted, error, disturbances>>
       \/ /\ Raise(s)
          /\ Disturb
          /\ UNCHANGED <<dbVars, memVars>>
    /\ UNCHANGED sensorVars

\* The Launch Attack handler.  In order: the running totals, the cached
\* attack result, store_quantum_data_with_entropy (lists, then commit), the
\* log entry, then the event and the flag in one commit, then st.rerun().
AttackHandler(s) ==
    /\ pc[s] = "button"
    /\ button[s] = "attack"
    /\ \E counts \in simulate_attack :
        /\ measurements' = [measurements EXCEPT ![s] = AddCounts(@, counts)]
        /\ last_attack_results' = [last_attack_results EXCEPT ![s] = {counts}]
        /\ secure_data_store' = [secure_data_store EXCEPT ![s] = Append(@, counts)]
        /\ \/ \* the commit of the measurement fails
              /\ CommitFails(~CanStoreMeasurement)
              /\ Raise(s)
              /\ UNCHANGED <<dbVars, attack_log, quantum_intact>>
           \/ \* the commit of the event fails
              /\ CanStoreMeasurement
              /\ CommitFails(~CanStoreEvent)
              /\ quantum_measurements' =
                    Append(quantum_measurements, QuantumMeasurementRow(counts, TRUE))
              /\ attack_log' = [attack_log EXCEPT ![s] = Append(@, "Attack Detected")]
              /\ quantum_intact' = [quantum_intact EXCEPT ![s] =
                    IF detect_attack(counts) THEN FALSE ELSE @]
              /\ Raise(s)
              /\ system_state' \in AfterFailedCommit
              /\ UNCHANGED security_events
           \/ \* both commits succeed
              /\ CanStoreMeasurement
              /\ CanStoreEvent
              /\ quantum_measurements' =
                    Append(quantum_measurements, QuantumMeasurementRow(counts, TRUE))
              /\ attack_log' = [attack_log EXCEPT ![s] = Append(@, "Attack Detected")]
              /\ quantum_intact' = [quantum_intact EXCEPT ![s] =
                    IF detect_attack(counts) THEN FALSE ELSE @]
              /\ security_events' = Append(security_events,
                    SecurityEventRow("Attack Detected", system_version[s]))
              /\ system_state' =
                    IF detect_attack(counts)
                    THEN PutRow([SystemStateRow EXCEPT !.quantum_intact = FALSE])
                    ELSE PutRow(SystemStateRow)
              /\ Rerun(s)
              /\ UNCHANGED disturbances
    /\ UNCHANGED <<db_initialized, system_version, system_resets, sensorVars>>

\* auto_reset_system(): the session first, then the first SystemState row
\* and the event in one commit, then st.rerun().
auto_reset_system(s) ==
    /\ system_resets' = [system_resets EXCEPT ![s] = @ + 1]
    /\ attack_log' = [attack_log EXCEPT ![s] = Append(@, "System Auto-Reset")]
    /\ quantum_intact' = [quantum_intact EXCEPT ![s] = TRUE]
    /\ last_attack_results' = [last_attack_results EXCEPT ![s] = None]
    /\ \/ /\ CanStoreEvent
          /\ system_state' = PutRow([SystemStateRow EXCEPT
                !.total_resets = system_resets[s] + 1,
                !.quantum_intact = TRUE])
          /\ security_events' = Append(security_events,
                SecurityEventRow("System Auto-Reset", system_version[s]))
          /\ Rerun(s)
          /\ UNCHANGED disturbances
       \/ /\ CommitFails(~CanStoreEvent)
          /\ Raise(s)
          /\ system_state' \in AfterFailedCommit
          /\ UNCHANGED security_events
    /\ UNCHANGED <<quantum_measurements, db_initialized, system_version,
                   secure_data_store, measurements, sensorVars>>

\* The Reset button.
ResetHandler(s) ==
    /\ pc[s] = "button"
    /\ button[s] = "reset"
    /\ auto_reset_system(s)

\* The end of the 2 s delay of a compromised session.
AutoResetFire(s) ==
    /\ pc[s] = "sleeping"
    /\ auto_reset_system(s)

\* upgrade_system() and the st.rerun() of the Upgrade button.
upgrade_system(s) ==
    /\ system_version' = [system_version EXCEPT ![s] = @ + 1]
    /\ attack_log' = [attack_log EXCEPT ![s] = Append(@, "System Upgrade")]
    /\ \/ /\ CanStoreEvent
          /\ system_state' = PutRow([SystemStateRow EXCEPT
                !.system_version = system_version[s] + 1])
          /\ security_events' = Append(security_events,
                SecurityEventRow("System Upgrade", system_version[s] + 1))
          /\ Rerun(s)
          /\ UNCHANGED disturbances
       \/ /\ CommitFails(~CanStoreEvent)
          /\ Raise(s)
          /\ system_state' \in AfterFailedCommit
          /\ UNCHANGED security_events
    /\ UNCHANGED <<quantum_measurements, db_initialized, system_resets,
                   quantum_intact, last_attack_results, secure_data_store,
                   measurements, sensorVars>>

\* The Upgrade button.
UpgradeHandler(s) ==
    /\ pc[s] = "button"
    /\ button[s] = "upgrade"
    /\ upgrade_system(s)

\* The rest of the script: the cached attack result is shown again, or a
\* new measurement is taken and classical_processing stores it (lists,
\* commit, then the running totals); then the reset delay starts if the
\* session is compromised.
Main(s) ==
    /\ pc[s] = "main"
    /\ IF last_attack_results[s] # None
       THEN /\ pc' = [pc EXCEPT ![s] = AfterMain(quantum_intact[s])]
            /\ UNCHANGED <<quantum_measurements, secure_data_store, measurements,
                           error, disturbances>>
       ELSE \E counts \in measure_quantum_state :
            /\ secure_data_store' = [secure_data_store EXCEPT ![s] = Append(@, counts)]
            /\ \/ /\ CanStoreMeasurement
                  /\ quantum_measurements' =
                        Append(quantum_measurements, QuantumMeasurementRow(counts, FALSE))
                  /\ measurements' = [measurements EXCEPT ![s] = AddCounts(@, counts)]
                  /\ pc' = [pc EXCEPT ![s] = AfterMain(quantum_intact[s])]
                  /\ UNCHANGED <<error, disturbances>>
               \/ /\ CommitFails(~CanStoreMeasurement)
                  /\ pc' = [pc EXCEPT ![s] = "idle"]
                  /\ error' = [error EXCEPT ![s] = TRUE]
                  /\ UNCHANGED <<quantum_measurements, measurements>>
    /\ UNCHANGED <<system_state, security_events, db_initialized, system_version,
                   system_resets, quantum_intact, last_attack_results, attack_log,
                   button, timer_preempted, sensorVars>>

\* The JSON bodies of PUT /api/system/state: any subset of the three keys.
PutBodies ==
    { [k \in ks |-> IF k = "system_version" THEN v.system_version
                    ELSE IF k = "total_resets" THEN v.total_resets
                    ELSE v.quantum_intact] :
        ks \in SUBSET {"system_version", "total_resets", "quantum_intact"},
        v \in [system_version : 1..MaxPut, total_resets : 0..MaxPut,
               quantum_intact : BOOLEAN] }

\* update_system_state(): the first row (created when there is none) gets
\* the keys of the request body.
update_system_state(data) ==
    LET state == IF system_state = <<>> THEN DefaultSystemState ELSE system_state[1]
        new == [system_version |-> IF "system_version" \in DOMAIN data
                                   THEN data["system_version"] ELSE state.system_version,
                total_resets |-> IF "total_resets" \in DOMAIN data
                                 THEN data["total_resets"] ELSE state.total_resets,
                quantum_intact |-> IF "quantum_intact" \in DOMAIN data
                                   THEN data["quantum_intact"] ELSE state.quantum_intact]
    IN /\ Disturb
       /\ system_state' = IF system_state = <<>> THEN <<new>>
                          ELSE [system_state EXCEPT ![1] = new]
       /\ UNCHANGED <<security_events, quantum_measurements, memVars, runVars,
                      sensorVars>>

\* The server process is restarted: every session state is gone, the
\* database stays.
Restart ==
    /\ \E s \in Sessions : db_initialized[s] \/ pc[s] # "idle" \/ error[s]
    /\ Disturb
    /\ db_initialized' = [s \in Sessions |-> FALSE]
    /\ system_version' = [s \in Sessions |-> 0]
    /\ system_resets' = [s \in Sessions |-> 0]
    /\ quantum_intact' = [s \in Sessions |-> TRUE]
    /\ last_attack_results' = [s \in Sessions |-> None]
    /\ attack_log' = [s \in Sessions |-> <<>>]
    /\ secure_data_store' = [s \in Sessions |-> <<>>]
    /\ measurements' = [s \in Sessions |-> EmptyTotals]
    /\ pc' = [s \in Sessions |-> "idle"]
    /\ button' = [s \in Sessions |-> "none"]
    /\ timer_preempted' = [s \in Sessions |-> FALSE]
    /\ error' = [s \in Sessions |-> FALSE]
    /\ UNCHANGED <<dbVars, sensorVars>>

\* The steps a script run takes by itself, without a user.
ScriptStep(s) ==
    \/ InitQuery(s)
    \/ InitInsert(s)
    \/ AttackHandler(s)
    \/ ResetHandler(s)
    \/ UpgradeHandler(s)
    \/ Main(s)
    \/ AutoResetFire(s)

\* One browser session, the REST endpoint and restarts.
Next ==
    \/ \E b \in {"none", "attack", "reset", "upgrade"} : UserEvent("s1", b)
    \/ ScriptStep("s1")
    \/ \E data \in PutBodies : update_system_state(data)
    \/ Restart

Spec == Init /\ [][Next]_vars

\* One browser session with restarts and failing commits, and no request to
\* the state endpoint.
SessionNext ==
    \/ \E b \in {"none", "attack", "reset", "upgrade"} : UserEvent("s1", b)
    \/ ScriptStep("s1")
    \/ Restart

SessionSpec == Init /\ [][SessionNext]_vars

\* reset_database() of setup_database.py, confirmed with 'yes', with
\* DATABASE_URL naming the SQLite file the application uses: the file is
\* deleted and the tables are created again, empty.
reset_database ==
    /\ Disturb
    /\ system_state' = <<>>
    /\ security_events' = <<>>
    /\ quantum_measurements' = <<>>
    /\ monitored_files' = <<>>
    /\ UNCHANGED <<memVars, runVars, fs, scan_files, scan_pc, scan_results,
                   removed, added, classifierVars, ransomVars, scriptVars>>

\* The application and the database management script.
AuditNext ==
    \/ Next
    \/ reset_database

AuditSpec == Init /\ [][AuditNext]_vars

\* A started script run goes on: its thread is scheduled, and the 2 s delay
\* ends.
LiveSpec == Spec /\ WF_vars(ScriptStep("s1"))

\* Several browser sessions on one database, with no disturbance from
\* outside (commits fail only where the model's storage is full).
ConcurrentInit ==
    /\ AppInit
    /\ FileInit
    /\ ScriptInit
    /\ ClassifierInit
    /\ DetectorInit
    /\ disturbances = MaxDisturbances

ConcurrentNext ==
    \/ \E s \in Sessions, b \in {"none", "attack", "reset", "upgrade"} : UserEvent(s, b)
    \/ \E s \in Sessions : ScriptStep(s)

ConcurrentSpec == ConcurrentInit /\ [][ConcurrentNext]_vars

\* ------------------------------------------------ file monitor operations
\* abs(x)
Abs(x) == IF x < 0 THEN -x ELSE x

\* check_file_integrity with the drift boundary on the wrong side (>= for >).
check_file_integrity_inclusive(last_hash, entropy_signature, current_hash, current_entropy) ==
    [hash_changed |-> current_hash # last_hash,
     entropy_drift |-> Abs(current_entropy - entropy_signature),
     current_hash |-> current_hash,
     current_entropy |-> current_entropy,
     compromised |-> \/ current_hash # last_hash
                     \/ Abs(current_entropy - entropy_signature) >= 5]

\* check_file_integrity(monitored_file), given the row's last_hash and
\* entropy_signature and what the two reads of the file returned (entropies
\* in tenths of a bit: 0.5 is 5).
check_file_integrity(last_hash, entropy_signature, current_hash, current_entropy) ==
    [hash_changed |-> current_hash # last_hash,
     entropy_drift |-> Abs(current_entropy - entropy_signature),
     current_hash |-> current_hash,
     current_entropy |-> current_entropy,
     compromised |-> \/ current_hash # last_hash
                     \/ Abs(current_entropy - entropy_signature) > 5]

\* MonitoredFile(file_path=..., entropy_signature=..., last_hash=...)
MonitoredFileRow(path, content) ==
    [file_path |-> path,
     entropy_signature |-> calculate_file_entropy(content),
     last_hash |-> calculate_file_hash(content),
     is_active |-> TRUE,
     attack_count |-> 0]

\* SecurityEvent(event_type='File Tampering Detected', ...): system_version
\* is the column default.
TamperingEvent == SecurityEventRow("File Tampering Detected", 1)

\* add_monitored_file(file_path): a row for a path that has none (for a
\* path that has one, the row is returned and nothing changes).
add_monitored_file(path) ==
    /\ \A i \in DOMAIN monitored_files : monitored_files[i].file_path # path
    /\ monitored_files' = Append(monitored_files, MonitoredFileRow(path, fs[path]))
    /\ UNCHANGED <<dbVars, memVars, runVars, disturbances, fs, scan_files, scan_pc,
                   scan_results, removed, added, classifierVars, ransomVars, scriptVars>>

\* db.query(MonitoredFile).filter_by(file_path=file_path).first(): the id
\* of the row with that path, 0 when there is none.
ExistingFile(path) ==
    IF \E i \in DOMAIN monitored_files : monitored_files[i].file_path = path
    THEN CHOOSE i \in DOMAIN monitored_files :
            /\ monitored_files[i].file_path = path
            /\ \A k \in DOMAIN monitored_files :
                    monitored_files[k].file_path = path => i <= k
    ELSE 0

\* An add that brings the row it finds up to date: new signature, active
\* again, counter at 0.
AddMonitoredFile_refreshes(path) ==
    /\ IF ExistingFile(path) # 0
       THEN /\ added' = [file_path |-> path, file_id |-> ExistingFile(path),
                         is_new |-> FALSE, returned |-> "pair"]
            /\ monitored_files' = [monitored_files EXCEPT ![ExistingFile(path)] =
                    MonitoredFileRow(path, fs[path])]
            /\ UNCHANGED disturbances
       ELSE \/ /\ monitored_files' = Append(monitored_files, MonitoredFileRow(path, fs[path]))
               /\ added' = [file_path |-> path, file_id |-> Len(monitored_files) + 1,
                            is_new |-> TRUE, returned |-> "pair"]
               /\ UNCHANGED disturbances
            \/ /\ Disturb
               /\ added' = [file_path |-> path, file_id |-> 0, is_new |-> FALSE,
                            returned |-> "raised"]
               /\ UNCHANGED monitored_files
    /\ UNCHANGED <<dbVars, memVars, runVars, fs, scan_files, scan_pc, scan_results,
                   removed, classifierVars, ransomVars, scriptVars>>

\* add_monitored_file(file_path) with what it returns: the row that has the
\* path, untouched, and False; or, after the insert and its commit, the new
\* row and True; or the commit raises.
AddMonitoredFile(path) ==
    /\ IF ExistingFile(path) # 0
       THEN /\ added' = [file_path |-> path, file_id |-> ExistingFile(path),
                         is_new |-> FALSE, returned |-> "pair"]
            /\ UNCHANGED <<monitored_files, disturbances>>
       ELSE \/ /\ monitored_files' = Append(monitored_files, MonitoredFileRow(path, fs[path]))
               /\ added' = [file_path |-> path, file_id |-> Len(monitored_files) + 1,
                            is_new |-> TRUE, returned |-> "pair"]
               /\ UNCHANGED disturbances
            \/ /\ Disturb
               /\ added' = [file_path |-> path, file_id |-> 0, is_new |-> FALSE,
                            returned |-> "raised"]
               /\ UNCHANGED monitored_files
    /\ UNCHANGED <<dbVars, memVars, runVars, fs, scan_files, scan_pc, scan_results,
                   removed, classifierVars, ransomVars, scriptVars>>

\* remove_monitored_file(file_id): the row with that id is kept and its
\* is_active is cleared, and True is returned, or the commit raises; with no
\* such row False is returned.
remove_monitored_file(file_id) ==
    /\ IF file_id \in DOMAIN monitored_files
       THEN \/ /\ monitored_files' = [monitored_files EXCEPT ![file_id].is_active = FALSE]
               /\ removed' = [file_id |-> file_id, returned |-> "True"]
               /\ UNCHANGED disturbances
            \/ /\ Disturb
               /\ removed' = [file_id |-> file_id, returned |-> "raised"]
               /\ UNCHANGED monitored_files
       ELSE /\ removed' = [file_id |-> file_id, returned |-> "False"]
            /\ UNCHANGED <<monitored_files, disturbances>>
    /\ UNCHANGED <<dbVars, memVars, runVars, fs, scan_files, scan_pc, scan_results,
                   added, classifierVars, ransomVars, scriptVars>>

\* remove_monitored_file(file_id) for a listed (active) file by a caller
\* that drops what it returns: the row's is_active is cleared.
RemoveButton(file_id) ==
    /\ file_id \in DOMAIN monitored_files
    /\ monitored_files[file_id].is_active
    /\ monitored_files' = [monitored_files EXCEPT ![file_id].is_active = FALSE]
    /\ UNCHANGED <<dbVars, memVars, runVars, disturbances, fs, scan_files, scan_pc,
                   scan_results, removed, added, classifierVars, ransomVars, scriptVars>>

\* Something outside the monitor writes, creates or deletes the file.
ModifyFile(path, content) ==
    /\ content # fs[path]
    /\ fs' = [fs EXCEPT ![path] = content]
    /\ UNCHANGED <<dbVars, memVars, runVars, disturbances, monitored_files,
                   scan_files, scan_pc, scan_results, removed, added, classifierVars, ransomVars, scriptVars>>

\* The query of a scan without its is_active filter.
ScanQuery_all_rows(t) ==
    /\ scan_pc[t] = "idle"
    /\ Cardinality({i \in DOMAIN security_events :
            security_events[i].event_type = "File Tampering Detected"}) < MaxTampering
    /\ scan_files' = [scan_files EXCEPT ![t] =
            [i \in DOMAIN monitored_files |-> monitored_files[i]]]
    /\ scan_pc' = [scan_pc EXCEPT ![t] = "loaded"]
    /\ scan_results' = [scan_results EXCEPT ![t] = NoResults]
    /\ UNCHANGED <<dbVars, memVars, runVars, disturbances, monitored_files, fs,
                   removed, added, classifierVars, ransomVars, scriptVars>>

\* scan_all_monitored_files, the query: the active rows as this invocation
\* loaded them, by id.
ScanQuery(t) ==
    /\ scan_pc[t] = "idle"
    /\ Cardinality({i \in DOMAIN security_events :
            security_events[i].event_type = "File Tampering Detected"}) < MaxTampering
    /\ scan_files' = [scan_files EXCEPT ![t] =
            [i \in {j \in DOMAIN monitored_files : monitored_files[j].is_active}
                |-> monitored_files[i]]]
    /\ scan_pc' = [scan_pc EXCEPT ![t] = "loaded"]
    /\ scan_results' = [scan_results EXCEPT ![t] = NoResults]
    /\ UNCHANGED <<dbVars, memVars, runVars, disturbances, monitored_files, fs,
                   removed, added, classifierVars, ransomVars, scriptVars>>

\* The files of a scan that exist (the others are skipped).
Scanned(t) == {i \in DOMAIN scan_files[t] : fs[scan_files[t][i].file_path] # Absent}

\* check_file_integrity(mf) for row i as invocation t loaded it.
IntegrityOf(t, i) ==
    LET mf == scan_files[t][i]
    IN check_file_integrity(mf.last_hash, mf.entropy_signature,
                            calculate_file_hash(fs[mf.file_path]),
                            calculate_file_entropy(fs[mf.file_path]))

\* The row a scan writes back without storing the new hash.
ScannedRow_keeps_hash(row, mf, result) ==
    IF result.compromised
    THEN [row EXCEPT !.attack_count = mf.attack_count + 1,
                     !.entropy_signature = IF result.current_entropy # mf.entropy_signature
                                           THEN result.current_entropy ELSE @]
    ELSE row

\* The stored row after the commit of a scan that loaded it as mf and got
\* result: on compromise attack_count is the loaded count + 1, and last_hash
\* and entropy_signature are written where they differ from the loaded ones.
ScannedRow(row, mf, result) ==
    IF result.compromised
    THEN [row EXCEPT !.attack_count = mf.attack_count + 1,
                     !.last_hash = IF result.current_hash # mf.last_hash
                                   THEN result.current_hash ELSE @,
                     !.entropy_signature = IF result.current_entropy # mf.entropy_signature
                                           THEN result.current_entropy ELSE @]
    ELSE row

\* scan_all_monitored_files, the loop and the commit: every loaded file
\* that exists is checked, a compromised one gets its row updated and an
\* event, and one commit writes it all; or the commit raises.
ScanCommit(t) ==
    /\ scan_pc[t] = "loaded"
    /\ scan_pc' = [scan_pc EXCEPT ![t] = "idle"]
    /\ scan_files' = [scan_files EXCEPT ![t] = <<>>]
    /\ \/ /\ monitored_files' =
                [i \in DOMAIN monitored_files |->
                    IF i \in Scanned(t)
                    THEN ScannedRow(monitored_files[i], scan_files[t][i], IntegrityOf(t, i))
                    ELSE monitored_files[i]]
          /\ security_events' = security_events \o
                [k \in 1..Cardinality({i \in Scanned(t) : IntegrityOf(t, i).compromised})
                    |-> TamperingEvent]
          /\ scan_results' = [scan_results EXCEPT ![t] =
                [i \in Scanned(t) |-> IntegrityOf(t, i).compromised]]
          /\ UNCHANGED disturbances
       \/ /\ Disturb
          /\ scan_results' = [scan_results EXCEPT ![t] = NoResults]
          /\ UNCHANGED <<monitored_files, security_events>>
    /\ UNCHANGED <<system_state, quantum_measurements, memVars, runVars, fs,
                   removed, added, classifierVars, ransomVars, scriptVars>>

\* The file monitor with one scan at a time.
FileNext ==
    \/ \E path \in Paths : add_monitored_file(path)
    \/ \E file_id \in 1..Cardinality(Paths) : RemoveButton(file_id)
    \/ \E path \in Paths, content \in Contents \cup {Absent} : ModifyFile(path, content)
    \/ ScanQuery("t1")
    \/ ScanCommit("t1")

FileSpec == Init /\ [][FileNext]_vars

\* The file monitor with one scan at a time, files that are created and
\* rewritten, and calls of remove_monitored_file with any id, of which one
\* commit may fail.
RemoveNext ==
    \/ \E path \in Paths : add_monitored_file(path)
    \/ \E file_id \in 1..Cardinality(Paths) : remove_monitored_file(file_id)
    \/ \E path \in Paths, content \in {"A", "B"} : ModifyFile(path, content)
    \/ ScanQuery("t1")
    \/ ScanCommit("t1")

RemoveInit ==
    /\ AppInit
    /\ FileInit
    /\ ScriptInit
    /\ ClassifierInit
    /\ DetectorInit
    /\ disturbances = MaxDisturbances - 1

RemoveSpec == RemoveInit /\ [][RemoveNext]_vars

\* The file monitor with one scan at a time, files that are created and
\* rewritten, removals, and calls of add_monitored_file with any path,
\* registered or not, of which one commit may fail.
AddNext ==
    \/ \E path \in Paths : AddMonitoredFile(path)
    \/ \E file_id \in 1..Cardinality(Paths) : RemoveButton(file_id)
    \/ \E path \in Paths, content \in {"A", "B"} : ModifyFile(path, content)
    \/ ScanQuery("t1")
    \/ ScanCommit("t1")

AddSpec == RemoveInit /\ [][AddNext]_vars

\* The file monitor with scans from several requests in flight.
ConcurrentFileNext ==
    \/ \E path \in Paths : add_monitored_file(path)
    \/ \E file_id \in 1..Cardinality(Paths) : RemoveButton(file_id)
    \/ \E path \in Paths, content \in Contents \cup {Absent} : ModifyFile(path, content)
    \/ \E t \in Scanners : ScanQuery(t)
    \/ \E t \in Scanners : ScanCommit(t)

\* No commit fails while the scans interleave.
ConcurrentFileInit ==
    /\ AppInit
    /\ FileInit
    /\ ScriptInit
    /\ ClassifierInit
    /\ DetectorInit
    /\ disturbances = MaxDisturbances

ConcurrentFileSpec == ConcurrentFileInit /\ [][ConcurrentFileNext]_vars

\* ------------------------------------------------ the quantum classifier
\* The outcome labels of the two-qubit circuit.
Labels == {"00", "01", "10", "11"}

\* The mappings handed to detect_attack: every mapping from some of the
\* labels to counts up to MaxCount (a label the simulator never saw is not
\* a key), and the three mappings of 1000 shots.
ClassifierInputs ==
    UNION {[D -> 0..MaxCount] : D \in SUBSET Labels}
        \cup {BellCounts, BoundaryCounts, NoisyCounts}

\* What a caller of detect_attack(counts) gets: the division by a total of
\* zero raises, otherwise True is Compromised and False is Intact.
Verdict(counts) ==
    IF Total(counts) = 0 THEN "ZeroDivisionError"
    ELSE IF detect_attack(counts) THEN "Compromised" ELSE "Intact"

\* One call of detect_attack on the mapping handed in.
Classify ==
    /\ verdict = "none"
    /\ verdict' = Verdict(counts_in)
    /\ UNCHANGED <<dbVars, memVars, runVars, disturbances, fileVars, counts_in,
                   probe, integrity, ransomVars, scriptVars>>

\* detect_attack alone, on every mapping of ClassifierInputs.
QuantumClassifierInit ==
    /\ AppInit
    /\ disturbances = 0
    /\ FileInit
    /\ ScriptInit
    /\ DetectorInit
    /\ counts_in \in ClassifierInputs
    /\ verdict = "none"
    /\ probe = <<>>
    /\ integrity = <<>>

QuantumClassifierNext == Classify

QuantumClassifierSpec == QuantumClassifierInit /\ [][QuantumClassifierNext]_vars

\* --------------------------------------------------- the file classifier
\* The Shannon entropy of a byte string is at most 8 bits (80 tenths).
MaxEntropy == 80

\* The hashes calculate_file_hash can return in the model.
Hashes == {"", "hA", "hB"}

\* The stored and the current hash and entropy check_file_integrity sees.
Probes ==
    [last_hash : Hashes, entropy_signature : 0..MaxEntropy,
     current_hash : Hashes, current_entropy : 0..MaxEntropy]

\* One call of check_file_integrity on the probe handed in.
CheckIntegrity ==
    /\ integrity = <<>>
    /\ integrity' = check_file_integrity(probe.last_hash, probe.entropy_signature,
                                         probe.current_hash, probe.current_entropy)
    /\ UNCHANGED <<dbVars, memVars, runVars, disturbances, fileVars, counts_in,
                   verdict, probe, ransomVars, scriptVars>>

\* check_file_integrity alone, on every probe.
FileClassifierInit ==
    /\ AppInit
    /\ disturbances = 0
    /\ FileInit
    /\ ScriptInit
    /\ DetectorInit
    /\ counts_in = <<>>
    /\ verdict = "none"
    /\ probe \in Probes
    /\ integrity = <<>>

FileClassifierNext == CheckIntegrity

FileClassifierSpec == FileClassifierInit /\ [][FileClassifierNext]_vars

\* ------------------------------------------------ the ransomware detector
\* RANSOMWARE_EXTENSIONS
RANSOMWARE_EXTENSIONS ==
    {".encrypted", ".locked", ".crypto", ".crypt", ".locky", ".cerber",
     ".zepto", ".odin", ".thor", ".aesir", ".zzzzz", ".micro", ".cryptowall",
     ".vault", ".xtbl", ".crinf", ".r5a", ".XRNT", ".XTBL", ".R16M01D05",
     ".pzdc", ".good", ".LOL!", ".OMG!", ".RDM", ".RRK", ".encryptedRSA",
     ".crjoker", ".LeChiffre", ".keybtc@inbox_com", ".0x0", ".bleep", ".1999",
     ".oxar", ".darkness", ".wcry", ".wncry", ".wnry", ".onion"}

RAPID_ENCRYPTION_THRESHOLD == 10
TIME_WINDOW_SECONDS == 60

\* str.lower() on the extensions of the model: the ones with an upper-case
\* letter change, the others are returned as they are.
Lower(ext) ==
    CASE ext = ".XRNT" -> ".xrnt"
      [] ext = ".XTBL" -> ".xtbl"
      [] ext = ".R16M01D05" -> ".r16m01d05"
      [] ext = ".LOL!" -> ".lol!"
      [] ext = ".OMG!" -> ".omg!"
      [] ext = ".RDM" -> ".rdm"
      [] ext = ".RRK" -> ".rrk"
      [] ext = ".encryptedRSA" -> ".encryptedrsa"
      [] ext = ".LeChiffre" -> ".lechiffre"
      [] ext = ".LOCKED" -> ".locked"
      [] ext = ".TXT" -> ".txt"
      [] OTHER -> ext

\* The extensions a file handed to the detector can have: every entry of
\* the list, its lower-case form, and some that are not on the list.
Extensions ==
    RANSOMWARE_EXTENSIONS \cup {Lower(e) : e \in RANSOMWARE_EXTENSIONS}
        \cup {".LOCKED", ".txt", ".TXT", ""}

\* check_file_extension(filepath), given the extension os.path.splitext
\* finds in the path.
check_file_extension(ext) == Lower(ext) \in RANSOMWARE_EXTENSIONS

\* [t for t in ... if current_time - t <= TIME_WINDOW_SECONDS]
Recent(times, current_time) ==
    SelectSeq(times, LAMBDA t : current_time - t <= TIME_WINDOW_SECONDS)

\* track_file_modification(filepath): the cache, the tracker's list of the
\* parent directory and the number returned, for a file that exists; a file
\* that does not exist changes nothing and gives 0.
TrackCache(filepath) ==
    IF fs[filepath] = Absent THEN file_mtime_cache
    ELSE [file_mtime_cache EXCEPT ![filepath] = mtime[filepath]]

\* A tracker that counts the first observation of a file as a modification.
TrackList_counts_first(filepath) ==
    LET parent_dir == dirname(filepath)
        noted == IF \/ file_mtime_cache[filepath] = NotCached
                    \/ mtime[filepath] > file_mtime_cache[filepath]
                 THEN Append(file_modification_tracker[parent_dir], clock)
                 ELSE file_modification_tracker[parent_dir]
    IN IF fs[filepath] = Absent THEN file_modification_tracker[parent_dir]
       ELSE Recent(noted, clock)

TrackList(filepath) ==
    LET parent_dir == dirname(filepath)
        noted == IF /\ file_mtime_cache[filepath] # NotCached
                    /\ mtime[filepath] > file_mtime_cache[filepath]
                 THEN Append(file_modification_tracker[parent_dir], clock)
                 ELSE file_modification_tracker[parent_dir]
    IN IF fs[filepath] = Absent THEN file_modification_tracker[parent_dir]
       ELSE Recent(noted, clock)

\* A count that is 0 for a file with no modification event of its own.
TrackCount_own_events(filepath) ==
    IF /\ fs[filepath] # Absent
       /\ file_mtime_cache[filepath] # NotCached
       /\ mtime[filepath] > file_mtime_cache[filepath]
    THEN Len(TrackList(filepath))
    ELSE 0

TrackCount(filepath) ==
    IF fs[filepath] = Absent THEN 0 ELSE Len(TrackList(filepath))

\* What one call of track_file_modification(filepath) leaves behind.
Tracked(filepath) ==
    /\ file_mtime_cache' = TrackCache(filepath)
    /\ file_modification_tracker' =
            [file_modification_tracker EXCEPT ![dirname(filepath)] = TrackList(filepath)]
    /\ num_mods' = [num_mods EXCEPT ![filepath] = TrackCount(filepath)]
    /\ rapid' = [rapid EXCEPT ![dirname(filepath)] = "none"]

\* One call of track_file_modification(filepath).
track_file_modification(filepath) ==
    /\ Tracked(filepath)
    /\ UNCHANGED <<dbVars, memVars, runVars, disturbances, fileVars, classifierVars, scriptVars,
                   clock, mtime, backupVars, callVars, extVars>>

\* detect_rapid_encryption with the window's boundary excluded (< for <=).
detect_rapid_encryption_open_window(directory) ==
    Len(SelectSeq(file_modification_tracker[directory],
                  LAMBDA t : clock - t < TIME_WINDOW_SECONDS))
        >= RAPID_ENCRYPTION_THRESHOLD

\* detect_rapid_encryption(directory)
detect_rapid_encryption(directory) ==
    Len(Recent(file_modification_tracker[directory], clock)) >= RAPID_ENCRYPTION_THRESHOLD

\* One call of detect_rapid_encryption(directory).
DetectRapid(directory) ==
    /\ rapid' = [rapid EXCEPT ![directory] =
            IF detect_rapid_encryption(directory) THEN "True" ELSE "False"]
    /\ UNCHANGED <<dbVars, memVars, runVars, disturbances, fileVars, classifierVars, scriptVars,
                   clock, mtime, file_mtime_cache, file_modification_tracker,
                   num_mods, backupVars, callVars, extVars>>

\* Something outside the detector writes to the file: its modification time
\* grows.
Touch(path) ==
    /\ fs[path] # Absent
    /\ mtime[path] < MaxMtime
    /\ mtime' = [mtime EXCEPT ![path] = @ + 1]
    /\ UNCHANGED <<dbVars, memVars, runVars, disturbances, fileVars, classifierVars, scriptVars,
                   clock, file_mtime_cache, file_modification_tracker, num_mods,
                   rapid, backupVars, callVars, extVars>>

\* Time passes: what the detector returned before is no longer about now.
Tick ==
    /\ \E t \in Times : t > clock /\ clock' = t
    /\ num_mods' = [p \in Files |-> NoCount]
    /\ rapid' = [d \in Dirs |-> "none"]
    /\ UNCHANGED <<dbVars, memVars, runVars, disturbances, fileVars, classifierVars, scriptVars,
                   mtime, file_mtime_cache, file_modification_tracker, backupVars,
                   callVars, extVars>>

\* The tracker and the directory verdict alone, on one watched file.
RapidNext ==
    \/ ModifyFile("p1", "A")
    \/ Touch("p1")
    \/ Tick
    \/ track_file_modification("p1")
    \/ DetectRapid("d1")

RapidSpec == Init /\ [][RapidNext]_vars

\* The tracker on one watched file that is also deleted and created again.
TrackNext ==
    \/ \E content \in {"A", Absent} : ModifyFile("p1", content)
    \/ Touch("p1")
    \/ Tick
    \/ track_file_modification("p1")
    \/ DetectRapid("d1")

TrackSpec == Init /\ [][TrackNext]_vars

\* The entries scan_directory_for_ransomware appends for one file, given
\* the file's extension and what track_file_modification returned.
ScanThreats(filepath, ext, n) ==
    (IF check_file_extension(ext)
     THEN <<[type |-> "Ransomware Extension", file |-> filepath, severity |-> "CRITICAL"]>>
     ELSE <<>>)
    \o (IF n >= RAPID_ENCRYPTION_THRESHOLD
        THEN <<[type |-> "Rapid Encryption", file |-> filepath, severity |-> "CRITICAL"]>>
        ELSE <<>>)

\* The loop body of scan_directory_for_ransomware on the file handed in.
FlagFile ==
    /\ ~flags.scanned
    /\ flags' = [scanned |-> TRUE, threats |-> ScanThreats("f", ext_in, mods_in)]
    /\ UNCHANGED <<dbVars, memVars, runVars, disturbances, fileVars, classifierVars, scriptVars,
                   clock, trackVars, backupVars, callVars, ext_in, mods_in>>

\* The loop body alone, on every extension and every count up to MaxMods.
ExtensionInit ==
    /\ AppInit
    /\ disturbances = 0
    /\ FileInit
    /\ ScriptInit
    /\ ClassifierInit
    /\ clock = 0
    /\ mtime = [p \in Files |-> 0]
    /\ file_mtime_cache = [p \in Files |-> NotCached]
    /\ file_modification_tracker = [d \in Dirs |-> <<>>]
    /\ num_mods = [p \in Files |-> NoCount]
    /\ rapid = [d \in Dirs |-> "none"]
    /\ backups = {}
    /\ automated_responses = <<>>
    /\ ransom_pc = "idle"
    /\ ransom_todo = <<>>
    /\ threats = <<>>
    /\ attempted = <<>>
    /\ pending = <<>>
    /\ responses_before = 0
    /\ ext_in \in Extensions
    /\ mods_in \in 0..MaxMods
    /\ flags = NotScanned

ExtensionNext == FlagFile

ExtensionSpec == ExtensionInit /\ [][ExtensionNext]_vars

\* SecurityEvent(event_type='Ransomware Detected', ..., system_version=1)
RansomwareEvent == SecurityEventRow("Ransomware Detected", 1)

\* The number of stored 'Ransomware Detected' events.
RansomEvents ==
    Cardinality({i \in DOMAIN security_events :
        security_events[i].event_type = "Ransomware Detected"})

\* backup_path: the backup directory, the time to the second and the base
\* name of the file.
BackupPath(filepath) == <<clock, basename(filepath)>>

\* shutil.copy2(filepath, backup_path) can copy the file.
CanCopy(filepath) == fs[filepath] \notin {Absent, "unreadable"}

\* The backup directory after shutil.copy2(filepath, backup_path): a file
\* already at backup_path is replaced.
Copied(filepath) ==
    {b \in backups : b.path # BackupPath(filepath)}
        \cup {[path |-> BackupPath(filepath), content |-> fs[filepath]]}

\* AutomatedResponse(response_type='File Backup', ..., success=True, ...)
FileBackupRow(filepath) ==
    [response_type |-> "File Backup", target |-> filepath, success |-> TRUE,
     backup_path |-> BackupPath(filepath)]

\* AutomatedResponse(response_type='Emergency Backup', ..., success=True, ...)
EmergencyBackupRow(filepath) ==
    [response_type |-> "Emergency Backup", target |-> filepath, success |-> TRUE,
     backup_path |-> BackupPath(filepath)]

\* create_backup(filepath) called by the scan in progress; returned says
\* whether it returns the backup path or None. The file is missing or the
\* copy raises (None, nothing written); or the copy and the commit of the
\* 'File Backup' row succeed; or the copy succeeds and the commit raises,
\* which the function answers with None as well.
create_backup(filepath, returned) ==
    \/ /\ ~CanCopy(filepath)
       /\ ~returned
       /\ attempted' = Append(attempted, [file |-> filepath, copied |-> FALSE])
       /\ UNCHANGED <<backups, automated_responses, disturbances>>
    \/ /\ CanCopy(filepath)
       /\ returned
       /\ attempted' = Append(attempted, [file |-> filepath, copied |-> TRUE])
       /\ backups' = Copied(filepath)
       /\ automated_responses' = Append(automated_responses, FileBackupRow(filepath))
       /\ UNCHANGED disturbances
    \/ /\ CanCopy(filepath)
       /\ ~returned
       /\ attempted' = Append(attempted, [file |-> filepath, copied |-> TRUE])
       /\ backups' = Copied(filepath)
       /\ Disturb
       /\ UNCHANGED automated_responses

\* A log that stores no event while 'Ransomware Detected' events are
\* already stored.
log_ransomware_detection_new_only(ok) ==
    \/ /\ ok
       /\ security_events' =
            IF RansomEvents = 0
            THEN security_events \o [k \in 1..Len(threats) |-> RansomwareEvent]
            ELSE security_events
       /\ UNCHANGED disturbances
    \/ /\ ~ok
       /\ Disturb
       /\ UNCHANGED security_events

\* log_ransomware_detection(threats): one event per threat and one commit
\* (ok), or the commit raises.
log_ransomware_detection(ok) ==
    \/ /\ ok
       /\ security_events' = security_events \o
            [k \in 1..Len(threats) |-> RansomwareEvent]
       /\ UNCHANGED disturbances
    \/ /\ ~ok
       /\ Disturb
       /\ UNCHANGED security_events

\* The call in progress returns or raises: its local variables are gone.
Returned ==
    /\ ransom_pc' = "idle"
    /\ ransom_todo' = <<>>
    /\ threats' = <<>>
    /\ attempted' = <<>>
    /\ pending' = <<>>
    /\ responses_before' = 0

\* The call in progress goes on to position next with its local variables.
GoesOn(next) ==
    /\ ransom_pc' = next
    /\ UNCHANGED <<ransom_todo, threats, attempted, pending, responses_before>>

\* The paths of the active rows, in id order.
ActivePaths ==
    LET active == SelectSeq(monitored_files, LAMBDA row : row.is_active)
    IN [k \in DOMAIN active |-> active[k].file_path]

\* monitor_monitored_files, the query.
MonitorQuery ==
    /\ ransom_pc = "idle"
    /\ RansomEvents < MaxRansom
    /\ ransom_pc' = "monitor"
    /\ ransom_todo' = ActivePaths
    /\ threats' = <<>>
    /\ attempted' = <<>>
    /\ pending' = <<>>
    /\ responses_before' = Len(automated_responses)
    /\ UNCHANGED <<dbVars, memVars, runVars, disturbances, fileVars, classifierVars, scriptVars,
                   clock, trackVars, backupVars, extVars>>

\* monitor_monitored_files, the loop body for the next row: a file with a
\* listed extension becomes a threat and is backed up, and a backup that
\* returned a path adds an 'Emergency Backup' row to the session.
MonitorFile ==
    /\ ransom_pc = "monitor"
    /\ ransom_todo # <<>>
    /\ ransom_todo' = Tail(ransom_todo)
    /\ LET file_path == Head(ransom_todo)
       IN IF check_file_extension(splitext(file_path))
          THEN /\ threats' = Append(threats,
                    [type |-> "Ransomware Extension on Monitored File",
                     file |-> file_path, severity |-> "CRITICAL"])
               /\ \E returned \in BOOLEAN :
                    /\ create_backup(file_path, returned)
                    /\ pending' = IF returned
                                  THEN Append(pending, EmergencyBackupRow(file_path))
                                  ELSE pending
          ELSE UNCHANGED <<threats, attempted, pending, backupVars, disturbances>>
    /\ UNCHANGED <<dbVars, memVars, runVars, fileVars, classifierVars, scriptVars, clock,
                   trackVars, ransom_pc, responses_before, extVars>>

\* monitor_monitored_files after the loop: with no threat it returns; with
\* threats the events are logged, and a commit that raises ends the call.
MonitorLog ==
    /\ ransom_pc = "monitor"
    /\ ransom_todo = <<>>
    /\ \/ /\ threats = <<>>
          /\ Returned
          /\ UNCHANGED <<security_events, disturbances>>
       \/ /\ threats # <<>>
          /\ \E ok \in BOOLEAN :
                /\ log_ransomware_detection(ok)
                /\ IF ok THEN GoesOn("commit") ELSE Returned
    /\ UNCHANGED <<system_state, quantum_measurements, memVars, runVars, fileVars,
                   classifierVars, scriptVars, clock, trackVars, backupVars, extVars>>

\* monitor_monitored_files, its own db.commit(): the 'Emergency Backup'
\* rows are stored, or the commit raises.
MonitorCommit ==
    /\ ransom_pc = "commit"
    /\ Returned
    /\ \/ /\ automated_responses' = automated_responses \o pending
          /\ UNCHANGED disturbances
       \/ /\ Disturb
          /\ UNCHANGED automated_responses
    /\ UNCHANGED <<dbVars, memVars, runVars, fileVars, classifierVars, scriptVars, clock,
                   trackVars, backups, extVars>>

\* The files os.walk(directory) lists, in the order of the walk.
Listing(directory) ==
    SelectSeq(<<"p1", "p3", "p2">>,
              LAMBDA path : dirname(path) = directory /\ fs[path] # Absent)

\* scan_directory_for_ransomware(directory), the walk.
DirScan(directory) ==
    /\ ransom_pc = "idle"
    /\ RansomEvents < MaxRansom
    /\ ransom_pc' = "scan"
    /\ ransom_todo' = Listing(directory)
    /\ threats' = <<>>
    /\ attempted' = <<>>
    /\ pending' = <<>>
    /\ responses_before' = Len(automated_responses)
    /\ UNCHANGED <<dbVars, memVars, runVars, disturbances, fileVars, classifierVars, scriptVars,
                   clock, trackVars, backupVars, extVars>>

\* scan_directory_for_ransomware, the loop body for the next file: the
\* extension check, the tracker, and a backup when the count has reached
\* the threshold.
DirFile ==
    /\ ransom_pc = "scan"
    /\ ransom_todo # <<>>
    /\ ransom_todo' = Tail(ransom_todo)
    /\ LET filepath == Head(ransom_todo)
       IN /\ Tracked(filepath)
          /\ threats' = threats \o
                ScanThreats(filepath, splitext(filepath), TrackCount(filepath))
          /\ IF TrackCount(filepath) >= RAPID_ENCRYPTION_THRESHOLD
             THEN \E returned \in BOOLEAN : create_backup(filepath, returned)
             ELSE UNCHANGED <<attempted, backupVars, disturbances>>
    /\ UNCHANGED <<dbVars, memVars, runVars, fileVars, classifierVars, scriptVars, clock,
                   mtime, ransom_pc, pending, responses_before, extVars>>

\* scan_directory_for_ransomware after the walk: the threats are logged.
DirLog ==
    /\ ransom_pc = "scan"
    /\ ransom_todo = <<>>
    /\ Returned
    /\ \/ /\ threats = <<>>
          /\ UNCHANGED <<security_events, disturbances>>
       \/ /\ threats # <<>>
          /\ \E ok \in BOOLEAN : log_ransomware_detection(ok)
    /\ UNCHANGED <<system_state, quantum_measurements, memVars, runVars, fileVars,
                   classifierVars, scriptVars, clock, trackVars, backupVars, extVars>>

\* The detector's two scans, one call at a time, over registered files of
\* which /d1/f.locked is written, deleted and made unreadable while time
\* passes.
RansomNext ==
    \/ \E path \in Paths : add_monitored_file(path)
    \/ \E content \in Contents \cup {Absent} : ModifyFile("p1", content)
    \/ Tick
    \/ MonitorQuery
    \/ MonitorFile
    \/ MonitorLog
    \/ MonitorCommit
    \/ \E directory \in Dirs : DirScan(directory)
    \/ DirFile
    \/ DirLog

\* One commit may fail while the detector runs.
RansomInit ==
    /\ AppInit
    /\ FileInit
    /\ ScriptInit
    /\ ClassifierInit
    /\ DetectorInit
    /\ disturbances = MaxDisturbances - 1

RansomSpec == RansomInit /\ [][RansomNext]_vars

\* A burst of writes to /d1/f.locked seen by the tracker, and scans of the
\* directory d1, in which /d1/g.txt is never written after it was created.
BurstNext ==
    \/ \E path \in {"p1", "p3"} : ModifyFile(path, "A")
    \/ Touch("p1")
    \/ Tick
    \/ track_file_modification("p1")
    \/ DirScan("d1")
    \/ DirFile
    \/ DirLog

BurstSpec == RansomInit /\ [][BurstNext]_vars

\* ------------------------------------------- the application with scans
\* One browser session next to the file monitor and the ransomware check
\* of the monitored files, with no commit failing.
VersionNext ==
    \/ \E b \in {"none", "attack", "reset", "upgrade"} : UserEvent("s1", b)
    \/ ScriptStep("s1")
    \/ add_monitored_file("p1")
    \/ \E content \in {"A", "B"} : ModifyFile("p1", content)
    \/ ScanQuery("t1")
    \/ ScanCommit("t1")
    \/ MonitorQuery
    \/ MonitorFile
    \/ MonitorLog
    \/ MonitorCommit

VersionSpec == ConcurrentInit /\ [][VersionNext]_vars

\* ------------------------------------------- the recovery simulation, run
\* 1. Setup: rho = bell * bell.dag()
Setup ==
    /\ recovery_pc = "setup"
    /\ rho' = Density(psi)
    /\ recovery_pc' = "attack"
    /\ UNCHANGED <<psi, rho_attacked, rho_recovered, attacked_val, recovered_val>>

\* 2. The attack: rho_attacked = noise * rho * noise.dag()
Attack ==
    /\ recovery_pc = "attack"
    /\ rho_attacked' = MatMul(MatMul(noise, rho), dag(noise))
    /\ recovery_pc' = "reversal"
    /\ UNCHANGED <<psi, rho, rho_recovered, attacked_val, recovered_val>>

\* 3. The reversal: rho_recovered = correction * rho_attacked * correction.dag()
Reversal ==
    /\ recovery_pc = "reversal"
    /\ rho_recovered' = MatMul(MatMul(correction, rho_attacked), dag(correction))
    /\ recovery_pc' = "measure"
    /\ UNCHANGED <<psi, rho, rho_attacked, attacked_val, recovered_val>>

\* 4. return get_corr(rho_attacked), get_corr(rho_recovered)
Measure ==
    /\ recovery_pc = "measure"
    /\ attacked_val' = get_corr(rho_attacked)
    /\ recovered_val' = get_corr(rho_recovered)
    /\ recovery_pc' = "done"
    /\ UNCHANGED <<psi, rho, rho_attacked, rho_recovered>>

simulate_recovery ==
    /\ Setup \/ Attack \/ Reversal \/ Measure
    /\ UNCHANGED <<dbVars, memVars, runVars, disturbances, fileVars, classifierVars,
                   ransomVars, voterVars>>

\* The operators of simulate_recovery on every state of Kets.
RecoveryInit ==
    /\ AppInit
    /\ FileInit
    /\ ClassifierInit
    /\ DetectorInit
    /\ \E v \in Kets : RecoveryStart(v)
    /\ VoterInit
    /\ disturbances = 0

RecoveryNext == simulate_recovery

RecoverySpec == RecoveryInit /\ [][RecoveryNext]_vars

\* ---------------------------------------------------- the idea network, run
\* save_idea, "Read current data" and "Add new idea": the request thread
\* loads the file and appends its idea to its own copy.  The idea is named
\* by the number of the call.
save_idea_read(w) ==
    /\ voter_pc[w] = "idle"
    /\ calls < MaxIdeas
    /\ calls' = calls + 1
    /\ voter_data' = [voter_data EXCEPT ![w] = Append(idea_file, calls + 1)]
    /\ voter_pc' = [voter_pc EXCEPT ![w] = "dump"]
    /\ UNCHANGED <<idea_file, voter_temp, saved>>

\* tempfile.mkstemp and json.dump(data, f, indent=4) into the temporary file.
save_idea_dump(w) ==
    /\ voter_pc[w] = "dump"
    /\ voter_temp' = [voter_temp EXCEPT ![w] = voter_data[w]]
    /\ voter_pc' = [voter_pc EXCEPT ![w] = "move"]
    /\ UNCHANGED <<idea_file, voter_data, calls, saved>>

\* shutil.move(temp_path, DB_FILE): the rename puts the temporary file in
\* the place of the idea file; save_idea returns.
save_idea_move(w) ==
    /\ voter_pc[w] = "move"
    /\ idea_file' = voter_temp[w]
    /\ saved' = saved \cup {voter_data[w][Len(voter_data[w])]}
    /\ voter_pc' = [voter_pc EXCEPT ![w] = "idle"]
    /\ voter_data' = [voter_data EXCEPT ![w] = <<>>]
    /\ voter_temp' = [voter_temp EXCEPT ![w] = <<>>]
    /\ UNCHANGED calls

save_idea(w) ==
    /\ save_idea_read(w) \/ save_idea_dump(w) \/ save_idea_move(w)
    /\ UNCHANGED <<dbVars, memVars, runVars, disturbances, fileVars, classifierVars,
                   ransomVars, recoveryVars>>

\* POST /api/submit served by the request threads.
VoterNext == \E w \in Workers : save_idea(w)

VoterSpec == Init /\ [][VoterNext]_vars

\* ----------------------------------------------------------- observations
\* db.query(SystemState).first(): the row every reader and writer uses.
HasSystemState == system_state # <<>>
PersistedResets == IF HasSystemState THEN system_state[1].total_resets ELSE 0
PersistedIntact == IF HasSystemState THEN system_state[1].quantum_intact ELSE TRUE
PersistedVersion == IF HasSystemState THEN system_state[1].system_version ELSE 1

\* The number of stored events of one type.
CountEvents(type) ==
    Cardinality({i \in 1..Len(security_events) : security_events[i].event_type = type})

\* The stored measurements whose correlation is below 95%.
LowCorrelationRows ==
    {i \in 1..Len(quantum_measurements) : quantum_measurements[i].correlation < 95}

\* This step commits one more event, of the given type.
EventCommitted(type) ==
    /\ Len(security_events') = Len(security_events) + 1
    /\ security_events'[Len(security_events')].event_type = type

\* This step is invocation t of scan_all_monitored_files returning results.
ScanReturns(t) ==
    /\ scan_pc[t] = "loaded"
    /\ scan_pc'[t] = "idle"
    /\ disturbances' = disturbances

\* The hash and the entropy a read of the file of stored row i returns now.
CurrentHash(i) == calculate_file_hash(fs[monitored_files[i].file_path])
CurrentEntropy(i) == calculate_file_entropy(fs[monitored_files[i].file_path])

\* s is a prefix of t.
IsPrefix(s, t) == Len(s) <= Len(t) /\ SubSeq(t, 1, Len(s)) = s

\* An active row of monitored_files has this path.
IsMonitored(path) ==
    \E i \in DOMAIN monitored_files :
        monitored_files[i].file_path = path /\ monitored_files[i].is_active

\* This step commits the 'Ransomware Detected' events of the call in progress.
RansomwareLogged ==
    /\ ransom_pc \in {"monitor", "scan"}
    /\ Len(security_events') > Len(security_events)

\* This step is the call in progress returning to its caller with no
\* commit having failed in it.
DetectorReturns ==
    /\ ransom_pc # "idle"
    /\ ransom_pc' = "idle"
    /\ disturbances' = disturbances

\* This step is a call of create_backup whose copy succeeded.
BackupTaken ==
    /\ Len(attempted') = Len(attempted) + 1
    /\ attempted'[Len(attempted')].copied

\* ------------------------------------------------------------------ claims
\* C1: every quantum measurement, normal or attack probe, whose correlation
\* is below 95% produces its own 'Attack Detected' event: the store never
\* holds more such measurements than 'Attack Detected' events.
C1_LowCorrelationHasAttackEvent ==
    Cardinality(LowCorrelationRows) <= CountEvents("Attack Detected")

\* C2: the persisted total_resets never decreases from one state to the next.
C2_TotalResetsNeverDecreases ==
    [][PersistedResets' >= PersistedResets]_vars

\* C3: a reset that completes from the Compromised state leaves quantum_intact
\* true, makes the persisted total_resets exactly one greater than before,
\* appends exactly one AutoReset event in that commit and clears the cached
\* attack measurement.
C3_ResetFromCompromised ==
    [][\A s \in Sessions :
        (/\ pc[s] \in {"button", "sleeping"}
         /\ ~quantum_intact[s]
         /\ ~PersistedIntact
         /\ EventCommitted("System Auto-Reset"))
        => (/\ PersistedIntact'
            /\ quantum_intact'[s]
            /\ PersistedResets' = PersistedResets + 1
            /\ CountEvents("System Auto-Reset")' = CountEvents("System Auto-Reset") + 1
            /\ last_attack_results'[s] = None)]_vars

\* C4: once the system is Compromised (the session has detected the attack
\* and the persisted quantum_intact is false), it returns to Intact: the
\* persisted quantum_intact becomes true again, with no operator action.
C4_CompromisedLeadsToIntact ==
    (~PersistedIntact /\ ~quantum_intact["s1"]) ~> PersistedIntact

\* C5: a manual reset issued while the automatic reset delay is in progress
\* replaces the automatic reset: when it completes, one AutoReset event has
\* been persisted, the persisted total_resets has grown by exactly 1, and no
\* reset delay is pending in the session.
C5_ManualResetPreemptsTimer ==
    [][\A s \in Sessions :
        (/\ pc[s] = "button"
         /\ timer_preempted[s]
         /\ EventCommitted("System Auto-Reset"))
        => (/\ Len(security_events') = Len(security_events) + 1
            /\ PersistedResets' = PersistedResets + 1
            /\ quantum_intact'[s]
            /\ pc'[s] # "sleeping")]_vars

\* C6: no reset or upgrade is lost or counted twice: the persisted
\* total_resets is the number of persisted AutoReset events and the persisted
\* version is 1 plus the number of persisted Upgrade events.
C6_CountersMatchEvents ==
    HasSystemState =>
        /\ PersistedResets = CountEvents("System Auto-Reset")
        /\ PersistedVersion = 1 + CountEvents("System Upgrade")

\* C7: there is at most one SystemState record, and exactly one once a
\* session has been initialised.
C7_SingleSystemState ==
    /\ Len(system_state) <= 1
    /\ \A s \in Sessions : db_initialized[s] => Len(system_state) = 1

\* C8: when the commit of an attack, a reset or an upgrade fails, the
\* failure is surfaced and neither the persisted SystemState nor the session
\* (version, reset counter, quantum_intact, event log) has advanced.
C8_FailedTransitionChangesNothing ==
    [][\A s \in Sessions :
        (pc[s] \in {"button", "sleeping"} /\ ~error[s] /\ error'[s])
        => (/\ system_state' = system_state
            /\ security_events' = security_events
            /\ system_version'[s] = system_version[s]
            /\ system_resets'[s] = system_resets[s]
            /\ quantum_intact'[s] = quantum_intact[s]
            /\ attack_log'[s] = attack_log[s])]_vars

\* C9: a step that puts a measurement that is not an attack probe into an
\* in-memory aggregate of the session (the data store or the running
\* totals) leaves a state in which its record has been committed.
C9_RecordBeforeAggregate ==
    [][\A s \in Sessions :
        (/\ pc[s] = "main"
         /\ \/ secure_data_store'[s] # secure_data_store[s]
            \/ measurements'[s] # measurements[s])
        => Len(quantum_measurements') = Len(quantum_measurements) + 1]_vars

\* C10: the per-label totals a restart would compute by folding over all
\* stored measurements are, label by label, the running totals of the
\* session that took those measurements.
C10_FoldEqualsRunningTotals ==
    (db_initialized["s1"] /\ pc["s1"] = "idle" /\ ~error["s1"])
        => measurements["s1"] = FoldMeasurements(quantum_measurements)

\* C11: the audit store is append-only: in every step the persisted
\* events and measurements of the state before are a prefix of those of the
\* state after.
C11_AuditStoreAppendOnly ==
    [][/\ IsPrefix(security_events, security_events')
       /\ IsPrefix(quantum_measurements, quantum_measurements')]_vars

\* C12: for every outcome-count mapping with total > 0 the classifier
\* returns Compromised exactly when (count["00"] + count["11"]) / total is
\* below 0.95 (19/20); 95% exactly (500, 450, 30, 20) is Intact and 60%
\* (300, 300, 200, 200) is Compromised.
C12_ClassifierThreshold ==
    (verdict # "none" /\ Total(counts_in) > 0) =>
        /\ verdict \in {"Compromised", "Intact"}
        /\ (verdict = "Compromised") <=>
                (20 * (Get(counts_in, "00") + Get(counts_in, "11")) < 19 * Total(counts_in))
        /\ counts_in = BoundaryCounts => verdict = "Intact"
        /\ counts_in = NoisyCounts => verdict = "Compromised"

\* The boundary mapping has been classified, as Intact.
C12_Witness ==
    /\ counts_in = BoundaryCounts
    /\ verdict = "Intact"

\* C13: when the attack handler classifies its measurement Compromised
\* while the system is Intact, the system moves to Compromised with its
\* audit record: the 'Attack Detected' event is committed and quantum_intact
\* is false in the persisted SystemState and in the session, all together;
\* or nothing of it is (the transition is aborted).
C13_AttackMovesToCompromised ==
    [][\A s \in Sessions :
        (/\ pc[s] = "button"
         /\ button[s] = "attack"
         /\ pc'[s] # pc[s]
         /\ quantum_intact[s]
         /\ PersistedIntact
         /\ \E counts \in last_attack_results'[s] : detect_attack(counts))
        => \/ /\ EventCommitted("Attack Detected")
              /\ ~PersistedIntact'
              /\ ~quantum_intact'[s]
           \/ /\ security_events' = security_events
              /\ PersistedIntact'
              /\ quantum_intact'[s]]_vars

\* C14: an upgrade, from Intact or from Compromised, increases the version
\* (persisted and in the session) by exactly 1, appends exactly one Upgrade
\* event carrying the new version, and leaves quantum_intact and
\* total_resets as they were.
C14_UpgradeFrame ==
    [][\A s \in Sessions :
        (/\ pc[s] = "button"
         /\ button[s] = "upgrade"
         /\ pc'[s] = "main"
         /\ EventCommitted("System Upgrade"))
        => (/\ PersistedVersion' = PersistedVersion + 1
            /\ system_version'[s] = system_version[s] + 1
            /\ security_events'[Len(security_events')].system_version = PersistedVersion'
            /\ PersistedIntact' = PersistedIntact
            /\ PersistedResets' = PersistedResets
            /\ quantum_intact'[s] = quantum_intact[s]
            /\ system_resets'[s] = system_resets[s])]_vars

\* C15: a reset requested while the system is already Intact leaves
\* quantum_intact true and the version unchanged, increases total_resets by
\* exactly 1 and appends an AutoReset event.
C15_ResetWhileIntact ==
    [][\A s \in Sessions :
        (/\ pc[s] = "button"
         /\ button[s] = "reset"
         /\ pc'[s] = "main"
         /\ quantum_intact[s]
         /\ PersistedIntact)
        => (/\ EventCommitted("System Auto-Reset")
            /\ PersistedIntact'
            /\ quantum_intact'[s]
            /\ PersistedVersion' = PersistedVersion
            /\ system_version'[s] = system_version[s]
            /\ PersistedResets' = PersistedResets + 1)]_vars

\* C16: every automatic reset that completes answers one Compromised
\* verdict of its session (it fires only from a compromised session and
\* leaves quantum_intact true, so N verdicts allow at most N of them), and
\* it makes total_resets grow by exactly 1: the growth of total_resets is
\* the number of automatic resets completed.
C16_AutoResetsCounted ==
    [][\A s \in Sessions :
        (/\ pc[s] = "sleeping"
         /\ pc'[s] = "main"
         /\ EventCommitted("System Auto-Reset"))
        => (/\ ~quantum_intact[s]
            /\ quantum_intact'[s]
            /\ PersistedIntact'
            /\ PersistedResets' = PersistedResets + 1)]_vars

\* C17: a scan that finds a monitored file with a hash other than the
\* stored last_hash (registered with H0, modified to H1) reports it
\* compromised, increases its attack_count by exactly 1 and stores the new
\* hash; a scan that finds the file as the stored row describes it reports
\* it not compromised and changes neither attack_count nor last_hash.
C17_ScanDetectsOnce ==
    [][\A t \in Scanners : ScanReturns(t) =>
        \A i \in Scanned(t) :
            /\ CurrentHash(i) # monitored_files[i].last_hash =>
                    /\ scan_results'[t][i] = TRUE
                    /\ monitored_files'[i].attack_count = monitored_files[i].attack_count + 1
                    /\ monitored_files'[i].last_hash = CurrentHash(i)
            /\ (/\ CurrentHash(i) = monitored_files[i].last_hash
                /\ CurrentEntropy(i) = monitored_files[i].entropy_signature) =>
                    /\ scan_results'[t][i] = FALSE
                    /\ monitored_files'[i].attack_count = monitored_files[i].attack_count
                    /\ monitored_files'[i].last_hash = monitored_files[i].last_hash]_vars

\* A change of a monitored file to content B has been detected once
\* (attack_count 1, last_hash hB) and a later scan of the unchanged file has
\* reported it not compromised.
C17_Witness ==
    \E i \in DOMAIN monitored_files :
        /\ monitored_files[i].attack_count = 1
        /\ monitored_files[i].last_hash = "hB"
        /\ CurrentHash(i) = "hB"
        /\ scan_pc["t1"] = "idle"
        /\ i \in DOMAIN scan_results["t1"]
        /\ scan_results["t1"][i] = FALSE

\* C18: a monitored file's attack_count never decreases, and it changes
\* only in a step in which a scan returns and reports that same file
\* compromised.
C18_AttackCountMonotonic ==
    [][\A i \in DOMAIN monitored_files :
        /\ i \in DOMAIN monitored_files'
        /\ monitored_files'[i].attack_count >= monitored_files[i].attack_count
        /\ monitored_files'[i].attack_count # monitored_files[i].attack_count =>
                \E t \in Scanners :
                    /\ ScanReturns(t)
                    /\ i \in DOMAIN scan_results'[t]
                    /\ scan_results'[t][i]]_vars

\* C19: scans that touch the same path are serialized: the compare-and-
\* update of a returning scan acts on the row as it is stored at that
\* moment, so a file is reported compromised (and gets an event) only when
\* it differs from what is stored, and then attack_count grows by exactly 1.
C19_ScansSerialized ==
    [][\A t \in Scanners : ScanReturns(t) =>
        \A i \in Scanned(t) :
            LET stored == check_file_integrity(monitored_files[i].last_hash,
                                               monitored_files[i].entropy_signature,
                                               CurrentHash(i), CurrentEntropy(i))
            IN /\ scan_results'[t][i] = stored.compromised
               /\ monitored_files'[i].attack_count =
                    monitored_files[i].attack_count + (IF stored.compromised THEN 1 ELSE 0)]_vars

\* C20: the file classifier reports Compromised exactly when the current
\* hash differs from the stored last_hash or the current and the stored
\* entropy are more than 0.5 apart; a drift of exactly 0.5 with an unchanged
\* hash is Intact.
C20_FileClassifier ==
    integrity # <<>> =>
        /\ integrity.compromised <=>
                \/ probe.current_hash # probe.last_hash
                \/ probe.current_entropy - probe.entropy_signature > 5
                \/ probe.entropy_signature - probe.current_entropy > 5
        /\ (/\ probe.current_hash = probe.last_hash
            /\ Abs(probe.current_entropy - probe.entropy_signature) = 5)
                => ~integrity.compromised

\* A file with an unchanged hash and a drift of exactly 0.5 has been
\* classified, as not compromised.
C20_Witness ==
    /\ integrity # <<>>
    /\ probe.current_hash = probe.last_hash
    /\ probe.current_entropy = probe.entropy_signature + 5
    /\ ~integrity.compromised

\* C21: every active monitored file (a row the scan's query returned) whose
\* path does not exist when the scan runs has an entry in the result the
\* scan returns; it is never left out.
C21_MissingFileReported ==
    [][\A t \in Scanners : ScanReturns(t) =>
        \A i \in DOMAIN scan_files[t] :
            fs[scan_files[t][i].file_path] = Absent => i \in DOMAIN scan_results'[t]]_vars

\* C22: in a batch scan a file that cannot be read is a skipped item: the
\* scan does not report it compromised, the stored last_hash,
\* entropy_signature and attack_count of its row stay as they are, and every
\* other file of the scan that exists is still in the result.
C22_UnreadableFileSkipped ==
    [][\A t \in Scanners : ScanReturns(t) =>
        \A i \in DOMAIN scan_files[t] :
            /\ fs[scan_files[t][i].file_path] = "unreadable" =>
                    /\ ~(i \in DOMAIN scan_results'[t] /\ scan_results'[t][i])
                    /\ monitored_files'[i].last_hash = monitored_files[i].last_hash
                    /\ monitored_files'[i].entropy_signature =
                            monitored_files[i].entropy_signature
                    /\ monitored_files'[i].attack_count = monitored_files[i].attack_count
            /\ fs[scan_files[t][i].file_path] \in {"A", "B"} =>
                    i \in DOMAIN scan_results'[t]]_vars

\* C23: remove_monitored_file(id) returns True and clears is_active when the
\* row exists, and returns False and changes nothing when it does not; the
\* row is never deleted and its path, hash, entropy signature and
\* attack_count stay as they are; is_active is cleared by nothing else and
\* never set again, and a scan that starts after the removal does not load
\* the row, and so neither reports nor modifies it.
C23_SoftDelete ==
    [][/\ removed' # removed =>
            LET id == removed'.file_id
            IN /\ removed'.returned = "True" <=>
                    /\ id \in DOMAIN monitored_files
                    /\ removed'.returned # "raised"
               /\ removed'.returned = "True" =>
                    monitored_files' = [monitored_files EXCEPT ![id].is_active = FALSE]
               /\ removed'.returned = "False" => monitored_files' = monitored_files
       /\ Len(monitored_files') >= Len(monitored_files)
       /\ \A i \in DOMAIN monitored_files :
            /\ monitored_files'[i].file_path = monitored_files[i].file_path
            /\ monitored_files'[i].is_active # monitored_files[i].is_active =>
                    /\ ~monitored_files'[i].is_active
                    /\ removed' = [file_id |-> i, returned |-> "True"]
       /\ \A t \in Scanners :
            /\ (scan_pc[t] = "idle" /\ scan_pc'[t] = "loaded") =>
                    \A i \in DOMAIN scan_files'[t] : monitored_files[i].is_active
            /\ ScanReturns(t) =>
                    /\ DOMAIN scan_results'[t] \subseteq DOMAIN scan_files[t]
                    /\ \A i \in DOMAIN monitored_files \ DOMAIN scan_files[t] :
                            monitored_files'[i] = monitored_files[i]]_vars

\* Row 1 has been removed (the call returned True) with its attack_count
\* still 0, its file now differs from the stored hash, and a scan that has
\* returned lists the active row 2 and not row 1.
C23_Witness ==
    /\ removed = [file_id |-> 1, returned |-> "True"]
    /\ Len(monitored_files) = 2
    /\ ~monitored_files[1].is_active
    /\ monitored_files[1].attack_count = 0
    /\ fs[monitored_files[1].file_path] # Absent
    /\ CurrentHash(1) # monitored_files[1].last_hash
    /\ monitored_files[2].is_active
    /\ scan_pc["t1"] = "idle"
    /\ DOMAIN scan_results["t1"] = {2}

\* C27: the rapid-modification verdict for a directory is Compromised
\* exactly when at least 10 of the modification events recorded for the
\* directory are at most 60 seconds old, in detect_rapid_encryption and in
\* the count the directory scan compares with the threshold for a file that
\* exists; an event older than 60 seconds does not count.
C27_RapidWindow ==
    /\ \A d \in Dirs :
        rapid[d] # "none" =>
            (rapid[d] = "True" <=>
                Cardinality({k \in DOMAIN file_modification_tracker[d] :
                    file_modification_tracker[d][k] >= clock - 60}) >= 10)
    /\ \A p \in Paths :
        (num_mods[p] # NoCount /\ fs[p] # Absent) =>
            (num_mods[p] >= 10 <=>
                Cardinality({k \in DOMAIN file_modification_tracker[dirname(p)] :
                    file_modification_tracker[dirname(p)][k] >= clock - 60}) >= 10)

\* The directory holds eleven recorded events, one of them 61 seconds old
\* and ten of them one second old, and the verdict is Compromised.
C27_Witness ==
    /\ rapid["d1"] = "True"
    /\ clock = 61
    /\ Len(file_modification_tracker["d1"]) = 11
    /\ file_modification_tracker["d1"][1] = 0
    /\ \A k \in 2..11 : file_modification_tracker["d1"][k] = 60

\* C28: a file whose extension is an entry of the ransomware-extension list
\* is flagged by the detector's scan as a threat of severity CRITICAL,
\* whatever the modification count of its directory.
C28_DenylistFlagged ==
    (flags.scanned /\ ext_in \in RANSOMWARE_EXTENSIONS) =>
        \E k \in DOMAIN flags.threats :
            /\ flags.threats[k].type = "Ransomware Extension"
            /\ flags.threats[k].severity = "CRITICAL"

\* C24: for a monitored file with a ransomware verdict (listed extension or
\* rapid modification) the backup attempt comes before the 'Ransomware
\* Detected' event is persisted: when the events of a scan are committed,
\* create_backup has been called for every monitored file among its threats.
C24_BackupBeforeEvent ==
    [][RansomwareLogged =>
        \A k \in DOMAIN threats :
            IsMonitored(threats[k].file) =>
                \E a \in DOMAIN attempted : attempted[a].file = threats[k].file]_vars

\* C25: every dispatched backup produces exactly one AutomatedResponse row,
\* with success = true exactly when the copy succeeded: when a detector scan
\* returns, each file it called create_backup for has one row among those
\* stored since the scan started, and the row's success says whether the
\* copy succeeded.
C25_OneResponsePerBackup ==
    [][DetectorReturns =>
        \A a \in DOMAIN attempted :
            LET rows == {j \in DOMAIN automated_responses' :
                            /\ j > responses_before
                            /\ automated_responses'[j].target = attempted[a].file}
            IN /\ Cardinality(rows) = 1
               /\ \A j \in rows : automated_responses'[j].success = attempted[a].copied]_vars

\* C26: two backups get distinct backup paths, also when they are taken
\* within the same second: a backup that is taken adds a file to the backup
\* directory and leaves every earlier backup as it is.
C26_BackupPathsDistinct ==
    [][BackupTaken =>
        /\ backups \subseteq backups'
        /\ Cardinality(backups') = Cardinality(backups) + 1]_vars

\* C29: absent evidence the quantum verdict is Compromised, never Intact
\* and never left open: a mapping whose counts add up to 0 is classified
\* Compromised.
C29_NoEvidenceIsCompromised ==
    (verdict # "none" /\ Total(counts_in) = 0) => verdict = "Compromised"

\* C30: every persisted SecurityEvent, whatever operation wrote it, carries
\* the system_version the persisted SystemState has when the event is
\* written (with the version written in the same commit, where there is one).
C30_EventCarriesVersion ==
    [][\A k \in (Len(security_events) + 1)..Len(security_events') :
        security_events'[k].system_version = PersistedVersion']_vars

\* A step in which the server process is started again: every session is
\* back before its initialisation with no script run and no error shown.
RestartStep ==
    /\ \E s \in Sessions : db_initialized[s] \/ pc[s] # "idle" \/ error[s]
    /\ \A s \in Sessions : ~db_initialized'[s] /\ pc'[s] = "idle" /\ ~error'[s]

\* C31: a process restart leaves every committed event, measurement and the
\* SystemState row as they were; the session initialised afterwards has the
\* version, the reset counter and the quantum_intact of the stored
\* SystemState; a session that was loaded as Compromised goes from its
\* script run into the reset delay, and the reset that ends the delay
\* leaves the session and the stored state intact.
C31_RestartKeepsState ==
    [][/\ RestartStep => UNCHANGED dbVars
       /\ \A s \in Sessions :
            /\ (pc[s] = "init" /\ pc'[s] = "main")
                 => /\ system_version'[s] = PersistedVersion'
                    /\ system_resets'[s] = PersistedResets'
                    /\ quantum_intact'[s] = PersistedIntact'
            /\ (pc[s] = "main" /\ ~quantum_intact[s] /\ pc'[s] # "main" /\ ~error'[s]
                  /\ db_initialized'[s])
                 => pc'[s] = "sleeping"
            /\ (pc[s] = "sleeping" /\ system_resets'[s] # system_resets[s] /\ ~error'[s]
                  /\ db_initialized'[s])
                 => /\ quantum_intact'[s]
                    /\ PersistedIntact'
                    /\ PersistedResets' = system_resets'[s]]_vars

\* C31 witness: the session that launched the stored attack was lost in a
\* restart; the session initialised afterwards holds no attack result of
\* its own and has loaded the Compromised state.
C31_Witness ==
    /\ pc["s1"] = "main"
    /\ db_initialized["s1"]
    /\ last_attack_results["s1"] = None
    /\ CountEvents("Attack Detected") = 1
    /\ ~PersistedIntact
    /\ ~quantum_intact["s1"]
    /\ system_version["s1"] = PersistedVersion
    /\ system_resets["s1"] = PersistedResets

\* C32: when simulate_recovery has returned, the recovered state is the
\* state before the attack, and for the Bell state of the script the 00/11
\* correlation is at most 10% after the attack, at least 95% after the
\* recovery, and at least 90 points higher after the recovery.
C32_RecoveryRestores ==
    recovery_pc = "done" =>
        /\ rho_recovered = rho
        /\ psi = bell =>
            /\ attacked_val <= 10
            /\ recovered_val >= 95
            /\ recovered_val - attacked_val >= 90

\* C32 witness: the script's run on the Bell state has returned 0% and 100%.
C32_Witness ==
    /\ recovery_pc = "done"
    /\ psi = bell
    /\ rho_attacked # rho
    /\ attacked_val = 0
    /\ recovered_val = 100

\* The number of entries of the idea file that hold the idea.
Occurrences(idea) == Cardinality({i \in 1..Len(idea_file) : idea_file[i] = idea})

\* C33: whatever the interleaving of the save_idea calls, the idea file
\* holds every idea whose save_idea has returned, each exactly once.
C33_EveryIdeaOnce == \A idea \in saved : Occurrences(idea) = 1

\* C34: whenever the script run of an initialised session has ended without
\* an exception (its measure, attack, reset or upgrade is complete), the
\* session's system_version, system_resets and quantum_intact equal the
\* system_version, total_resets and quantum_intact of the stored SystemState.
C34_SessionMirrorsStore ==
    (db_initialized["s1"] /\ pc["s1"] \in {"idle", "sleeping"} /\ ~error["s1"]) =>
        /\ system_version["s1"] = PersistedVersion
        /\ system_resets["s1"] = PersistedResets
        /\ quantum_intact["s1"] = PersistedIntact

\* sum(mf.attack_count for mf in db.query(MonitoredFile))
TotalAttackCount ==
    SumOver([i \in DOMAIN monitored_files |-> monitored_files[i].attack_count],
            DOMAIN monitored_files)

\* C35: in every reachable state the attack_count values of all
\* MonitoredFile rows add up to the number of stored 'File Tampering
\* Detected' events.
C35_AttackCountMatchesEvents ==
    TotalAttackCount = CountEvents("File Tampering Detected")

\* A call of add_monitored_file returns the pair (record, False).
AddReturnsExisting ==
    /\ added' # added
    /\ added'.returned = "pair"
    /\ ~added'.is_new

\* C36: a call of add_monitored_file that returns isNew = False returns the
\* record that has the path and leaves every record as it was (hash,
\* entropy, attack_count and is_active included); and no two records ever
\* have the same path.
C36_AddExistingChangesNothing ==
    /\ [][AddReturnsExisting =>
            /\ monitored_files' = monitored_files
            /\ added'.file_id \in DOMAIN monitored_files
            /\ monitored_files[added'.file_id].file_path = added'.file_path]_vars
    /\ [](\A i, k \in DOMAIN monitored_files :
            monitored_files[i].file_path = monitored_files[k].file_path => i = k)

\* C36 witness: add_monitored_file has returned isNew = False for a
\* soft-deleted record whose file has changed since its last scan and whose
\* attack_count is not 0.
C36_Witness ==
    /\ added.returned = "pair"
    /\ ~added.is_new
    /\ added.file_id \in DOMAIN monitored_files
    /\ ~monitored_files[added.file_id].is_active
    /\ monitored_files[added.file_id].attack_count > 0
    /\ monitored_files[added.file_id].last_hash # calculate_file_hash(fs[added.file_path])

\* The Launch Attack handler of session s runs to its st.rerun().
AttackCompletes(s) ==
    /\ pc[s] = "button"
    /\ button[s] = "attack"
    /\ pc'[s] = "main"

\* C37: every attack that completes appends exactly one measurement, marked
\* is_attack, and exactly one 'Attack Detected' event, whatever its
\* classification; when the correlation of its measurement is at least 95%
\* the SystemState row (quantum_intact, version, total_resets) stays as it
\* was.
C37_AttackAlwaysRecorded ==
    [][\A s \in Sessions :
        AttackCompletes(s) =>
            /\ Len(quantum_measurements') = Len(quantum_measurements) + 1
            /\ SubSeq(quantum_measurements', 1, Len(quantum_measurements)) = quantum_measurements
            /\ quantum_measurements'[Len(quantum_measurements')].is_attack
            /\ security_events' = Append(security_events,
                    SecurityEventRow("Attack Detected", system_version[s]))
            /\ quantum_measurements'[Len(quantum_measurements')].correlation >= 95
                 => system_state' = system_state]_vars

\* C37 witness: an attack with 95% correlation has completed on an intact
\* system: its measurement and its event are stored and the system is
\* still intact.
C37_Witness ==
    /\ pc["s1"] = "main"
    /\ last_attack_results["s1"] = {BoundaryCounts}
    /\ quantum_measurements # <<>>
    /\ quantum_measurements[Len(quantum_measurements)] = QuantumMeasurementRow(BoundaryCounts, TRUE)
    /\ CountEvents("Attack Detected") = 1
    /\ PersistedIntact
    /\ quantum_intact["s1"]

\* A call of track_file_modification(filepath) returns: the file system and
\* the clock are as before and the directory has no verdict.
TrackReturns(filepath) ==
    /\ num_mods'[filepath] # NoCount
    /\ rapid'[dirname(filepath)] = "none"
    /\ UNCHANGED <<clock, fs, mtime>>

\* The call has appended an event to the tracker of the file's directory.
EventRecorded(filepath) ==
    Len(SelectSeq(file_modification_tracker'[dirname(filepath)], LAMBDA t : t = clock))
        > Len(SelectSeq(file_modification_tracker[dirname(filepath)], LAMBDA t : t = clock))

\* What a call leaves: only events at most 60 seconds old in the tracker of
\* the directory, and their number returned.
WindowReturned(filepath) ==
    /\ \A i \in DOMAIN file_modification_tracker'[dirname(filepath)] :
            clock - file_modification_tracker'[dirname(filepath)][i] <= TIME_WINDOW_SECONDS
    /\ num_mods'[filepath] = Len(file_modification_tracker'[dirname(filepath)])

\* C38 as stated: every call of track_file_modification records an event
\* only when the file's modification time is greater than the cached one,
\* and leaves only events at most 60 seconds old in the directory's tracker
\* and returns their number.
C38_EveryCallReturnsWindow ==
    [][\A filepath \in Paths :
        TrackReturns(filepath) =>
            /\ EventRecorded(filepath) =>
                    /\ file_mtime_cache[filepath] # NotCached
                    /\ mtime[filepath] > file_mtime_cache[filepath]
            /\ WindowReturned(filepath)]_vars

\* C38 amended: a call of track_file_modification for a file that exists
\* records an event only when the file's modification time is greater than
\* the cached one, leaves only events at most 60 seconds old in the
\* directory's tracker and returns their number; a call for a file that
\* does not exist returns 0 and leaves the cache and the tracker as they
\* were.
C38_ExistingFileReturnsWindow ==
    [][\A filepath \in Paths :
        TrackReturns(filepath) =>
            IF fs[filepath] # Absent
            THEN /\ EventRecorded(filepath) =>
                        /\ file_mtime_cache[filepath] # NotCached
                        /\ mtime[filepath] > file_mtime_cache[filepath]
                 /\ file_mtime_cache'[filepath] = mtime[filepath]
                 /\ WindowReturned(filepath)
            ELSE /\ num_mods'[filepath] = 0
                 /\ UNCHANGED <<file_mtime_cache, file_modification_tracker>>]_vars

\* C38 witness: at second 61 a call has recorded a modification of the
\* watched file and returned 1: the tracker holds that event alone.
C38_Witness ==
    /\ clock = 61
    /\ fs["p1"] # Absent
    /\ file_mtime_cache["p1"] = mtime["p1"]
    /\ mtime["p1"] >= 2
    /\ file_modification_tracker["d1"] = <<61>>
    /\ num_mods["p1"] = 1

\* This step is the loop body of scan_directory_for_ransomware on filepath,
\* a file that is there.
Visits(filepath) ==
    /\ ransom_pc = "scan"
    /\ ransom_todo # <<>>
    /\ Head(ransom_todo) = filepath
    /\ ransom_todo' = Tail(ransom_todo)
    /\ fs[filepath] # Absent

\* The step reports filepath as a Rapid Encryption threat and calls
\* create_backup for it, which copies a file that can be read.
ReportedRapid(filepath) ==
    /\ Len(threats') > Len(threats)
    /\ threats'[Len(threats')] =
            [type |-> "Rapid Encryption", file |-> filepath, severity |-> "CRITICAL"]
    /\ attempted' = Append(attempted, [file |-> filepath, copied |-> CanCopy(filepath)])

C40_OneEventPerThreat ==
    [][ransom_pc = "scan" =>
        /\ ransom_pc' = "scan" => security_events' = security_events
        /\ DetectorReturns =>
                security_events' =
                    security_events \o [k \in 1..Len(threats) |-> RansomwareEvent]]_vars

\* C40 witness: a second scan of the directory, whose only file has not
\* been written since the first, has returned the extension threat of
\* /d1/f.locked again, and a second event is stored.
C40_Witness ==
    /\ ransom_pc = "idle"
    /\ RansomEvents = 2
    /\ Len(security_events) = 2
    /\ mtime["p1"] = 0
    /\ fs["p3"] = Absent
    /\ clock = 0
    /\ file_mtime_cache["p1"] = 0
    /\ file_modification_tracker["d1"] = <<>>
    /\ disturbances = MaxDisturbances - 1

====
